---------------------------- MODULE Spec2Model ----------------------------
(***************************************************************************)
(* A model of the portfolio's data-shaping code: the repository            *)
(* filter/ranker and the tech-stack aggregator (utils/githubHelpers) and   *)
(* the README technology parser (services/github).                         *)
(*                                                                         *)
(* Strings are sequences of one-character strings, so that toLowerCase,    *)
(* trim, split and the regular expressions are computed character by       *)
(* character.  Each component has its own specification; the variables of  *)
(* the other components stay at their idle values.                         *)
(***************************************************************************)
EXTENDS Integers, Sequences, FiniteSets, TLC

VARIABLES
    \* filterRepositories
    repos,          \* the argument: a list of GitHubRepo
    topicsEnv,      \* import.meta.env.VITE_REPO_TOPICS (an option)
    filtered,       \* the returned list
    filterThrew,    \* whether the call threw
    fpc,            \* "idle" | "ready" | "done"
    \* calculateTechStack
    tsRepos,        \* the argument repos
    languagesMap,   \* the argument languagesMap
    techStack,      \* the list returned by the first call
    techStack2,     \* the list returned by the second call
    tpc,            \* "idle" | "ready" | "ran1" | "ran2"
    \* parseCategorizedTechStackFromReadme
    readme,         \* the argument content
    readmeTechs,    \* the returned list
    repoLangs,      \* languagesMap.get(repo.name) at the merge (an option)
    readmeTechStack, \* the repository's readmeTechStack after the merge
    rpc,            \* "idle" | "ready" | "done" | "merged"
    \* extractDescriptionFromReadme
    descContent,    \* the argument content
    description,    \* the returned description (an option: null is None)
    dpc,            \* "idle" | "ready" | "done"
    \* extractImageFromReadme
    imgContent,     \* the argument content
    imgUser,        \* GITHUB_USERNAME ('' when not configured)
    image,          \* the returned URL (an option: null is None)
    ipc,            \* "idle" | "ready" | "done"
    \* the batch loops of fetchAllRepoLanguages and of useGitHub
    batchKind,      \* "none" | "languages" | "readme": which loop runs
    activeCount,    \* activeRepos.length / filteredRepos.length
    inputRepos,     \* the repositories passed to the fetcher
    languageMap,    \* the map fetchAllRepoLanguages fills and returns
    readmeMapSet,   \* whether languageMap holds the __readme__ entry
    batchStart,     \* the loop variable i
    inFlight,       \* the repositories (1-based) whose call has not settled
    jsonFallback,   \* those of them whose README call is the JSON fallback
    batchResults,   \* the settled values of the calls (options)
    stored,         \* the map(s) the loop fills (an option per repository)
    upstream,       \* what the upstream call did for each repository
    paused,         \* milliseconds spent in inter-batch pauses
    bpc,            \* "idle" | "special" | "loop" | "await" | "pause" |
                    \* "done" | "rejected"
    \* useGitHub
    githubUsername, \* GITHUB_USERNAME ('' when not configured)
    upstreamRepos,  \* the repository list the API would answer with
    userSWR,        \* the cache entry of 'github-user'
    reposSWR,       \* the cache entry of 'github-repos'
    languagesSWR,   \* the cache entries of ['github-languages', names]
    repoDataSWR,    \* the cache entries of ['repo-data', names]
    upstreamCalls,  \* the upstream resources asked for so far (a set)
    \* getDeploymentUrl
    urlRepo,        \* the argument: name and homepage (an option)
    customUrls,     \* import.meta.env.VITE_REPO_URLS (an option)
    autoDetect,     \* import.meta.env.VITE_AUTO_DETECT_DEPLOYMENT (an option)
    urlUsername,    \* import.meta.env.VITE_GITHUB_USERNAME ('' when unset)
    deploymentUrl,  \* the returned URL (an option: null is None)
    upc,            \* "idle" | "ready" | "done"
    \* the Contact form and the rate limiter of utils/security
    now,            \* Date.now(), in milliseconds since the session began
    submissions,    \* the timestamps under 'contact_form_submissions'
    submitError,    \* the component's submitError (an option)
    submitSuccess,  \* the component's submitSuccess
    rateLimitError, \* the component's rateLimitError (an option)
    isSubmitting,   \* formState.isSubmitting
    successTimers,  \* the pending 5-second timers that clear submitSuccess
    lastAttempt,    \* the last submit attempt and what became of it
    mounts          \* how often the form has been mounted (0: not rendered)

filterVars == <<repos, topicsEnv, filtered, filterThrew, fpc>>
techVars == <<tsRepos, languagesMap, techStack, techStack2, tpc>>
readmeVars == <<readme, readmeTechs, repoLangs, readmeTechStack, rpc>>
descVars == <<descContent, description, dpc>>
\* the variables of the components modelled after the first three
imageVars == <<imgContent, imgUser, image, ipc>>
batchVars == <<batchKind, activeCount, inputRepos, languageMap, readmeMapSet, batchStart, inFlight,
               jsonFallback, batchResults, stored, upstream, paused, bpc>>
hookVars == <<githubUsername, upstreamRepos, userSWR, reposSWR, languagesSWR,
              repoDataSWR, upstreamCalls>>
urlVars == <<urlRepo, customUrls, autoDetect, urlUsername, deploymentUrl, upc>>
contactVars == <<now, submissions, submitError, submitSuccess, rateLimitError,
                 isSubmitting, successTimers, lastAttempt, mounts>>
lastVars == <<urlVars, contactVars>>
laterVars == <<descVars, imageVars, batchVars, hookVars, lastVars>>
vars == <<filterVars, techVars, readmeVars, laterVars>>

(***************************************************************************)
(* Bounds of the model.                                                    *)
(***************************************************************************)
MaxRepos == 3

(***************************************************************************)
(* Optional values (undefined / null in the source).                       *)
(***************************************************************************)
None == [some |-> FALSE, v |-> <<>>]
Some(x) == [some |-> TRUE, v |-> x]

(***************************************************************************)
(* Characters and strings.                                                 *)
(***************************************************************************)
UpperChars == <<"A","B","C","D","E","F","G","H","I","J","K","L","M",
                "N","O","P","Q","R","S","T","U","V","W","X","Y","Z">>
LowerChars == <<"a","b","c","d","e","f","g","h","i","j","k","l","m",
                "n","o","p","q","r","s","t","u","v","w","x","y","z">>
DigitChars == <<"0","1","2","3","4","5","6","7","8","9">>

SeqRange(s) == {s[i] : i \in 1..Len(s)}

toLowerMap == [c \in SeqRange(UpperChars) |->
                 LowerChars[CHOOSE i \in 1..Len(UpperChars) : UpperChars[i] = c]]
toUpperMap == [c \in SeqRange(LowerChars) |->
                 UpperChars[CHOOSE i \in 1..Len(LowerChars) : LowerChars[i] = c]]
digitMap == [c \in SeqRange(DigitChars) |->
                 (CHOOSE i \in 1..Len(DigitChars) : DigitChars[i] = c) - 1]

LowerChar(c) == IF c \in DOMAIN toLowerMap THEN toLowerMap[c] ELSE c
UpperChar(c) == IF c \in DOMAIN toUpperMap THEN toUpperMap[c] ELSE c

\* String.prototype.toLowerCase
ToLowerCase(s) == [i \in 1..Len(s) |-> LowerChar(s[i])]

\* White space as \s and trim() see it, within the model's alphabet.
WhiteSpace == {" ", "\n", "\t", "\r"}

\* s.substring(from - 1, to) with 1-based inclusive bounds; empty when from > to
Slice(s, from, to) == IF from > to THEN <<>> ELSE SubSeq(s, from, to)

RECURSIVE FirstNonSpace(_, _)
FirstNonSpace(s, i) ==
    IF i > Len(s) \/ s[i] \notin WhiteSpace THEN i ELSE FirstNonSpace(s, i + 1)

RECURSIVE LastNonSpace(_, _)
LastNonSpace(s, i) ==
    IF i < 1 \/ s[i] \notin WhiteSpace THEN i ELSE LastNonSpace(s, i - 1)

\* String.prototype.trim
Trim(s) == Slice(s, FirstNonSpace(s, 1), LastNonSpace(s, Len(s)))

\* s.split(c) for a one-character separator set: the pieces between separators
RECURSIVE SplitFrom(_, _, _, _)
SplitFrom(s, seps, start, i) ==
    IF i > Len(s) THEN <<Slice(s, start, Len(s))>>
    ELSE IF s[i] \in seps
         THEN <<Slice(s, start, i - 1)>> \o SplitFrom(s, seps, i + 1, i + 1)
         ELSE SplitFrom(s, seps, start, i + 1)

SplitOn(s, seps) == SplitFrom(s, seps, 1, 1)

\* Array.prototype.filter / map over sequences
RECURSIVE SelectIdx(_, _, _)
SelectIdx(s, keep, i) ==
    IF i > Len(s) THEN <<>>
    ELSE (IF i \in keep THEN <<s[i]>> ELSE <<>>) \o SelectIdx(s, keep, i + 1)

\* s.startsWith(p, at - 1)
StartsWithAt(s, p, at) ==
    /\ at + Len(p) - 1 <= Len(s)
    /\ \A j \in 1..Len(p) : s[at + j - 1] = p[j]

\* s.includes(p)
Includes(s, p) == \E at \in 1..(Len(s) - Len(p) + 1) : StartsWithAt(s, p, at)

(***************************************************************************)
(* Bounded sequences.                                                      *)
(***************************************************************************)
SeqsUpTo(S, n) == UNION {[1..k -> S] : k \in 0..n}

(***************************************************************************)
(* new Date(iso).getTime() for the timestamps the API sends,               *)
(* "YYYY-MM-DDTHH:MM:SSZ".  The result is kept in seconds, not             *)
(* milliseconds: the timestamps carry no fraction of a second and the      *)
(* model checker's integers are 32 bits wide.                              *)
(***************************************************************************)
Num2(s, i) == digitMap[s[i]] * 10 + digitMap[s[i + 1]]
Num4(s, i) == Num2(s, i) * 100 + Num2(s, i + 2)

DaysFromCivil(y, m, d) ==
    LET yy  == IF m <= 2 THEN y - 1 ELSE y
        era == yy \div 400
        yoe == yy - era * 400
        mp  == IF m > 2 THEN m - 3 ELSE m + 9
        doy == (153 * mp + 2) \div 5 + d - 1
        doe == yoe * 365 + yoe \div 4 - yoe \div 100 + doy
    IN  era * 146097 + doe - 719468

DateGetTime(s) ==
    DaysFromCivil(Num4(s, 1), Num2(s, 6), Num2(s, 9)) * 86400
        + Num2(s, 12) * 3600 + Num2(s, 15) * 60 + Num2(s, 18)

(***************************************************************************)
(* utils/githubHelpers: getAllowedTopics, hasAllowedTopic,                 *)
(* getTopicPriority, filterRepositories.                                   *)
(***************************************************************************)
TopicOngoing == <<"o","n","g","o","i","n","g">>
TopicFeatured == <<"f","e","a","t","u","r","e","d">>
TopicCaseStudy == <<"c","a","s","e","-","s","t","u","d","y">>

\* topics ? topics.split(',').map(t => t.trim().toLowerCase()).filter(t => t) : null
getAllowedTopics(env) ==
    IF env.some /\ env.v # <<>>
    THEN LET parts == SplitOn(env.v, {","})
             clean == [i \in 1..Len(parts) |-> ToLowerCase(Trim(parts[i]))]
         IN  Some(SelectIdx(clean, {i \in 1..Len(clean) : clean[i] # <<>>}, 1))
    ELSE None

\* !repo.topics?.length
NoTopics(repo) == ~repo.topics.some \/ Len(repo.topics.v) = 0

\* repo.topics.map(t => t.toLowerCase())
LowerTopics(repo) == [i \in 1..Len(repo.topics.v) |-> ToLowerCase(repo.topics.v[i])]

hasAllowedTopic(repo, topics) ==
    IF NoTopics(repo) THEN FALSE
    ELSE \E i \in 1..Len(topics) : topics[i] \in SeqRange(LowerTopics(repo))

getTopicPriority(repo) ==
    IF NoTopics(repo) THEN 999
    ELSE LET topics == SeqRange(LowerTopics(repo))
         IN  IF TopicOngoing \in topics THEN 1
             ELSE IF TopicFeatured \in topics THEN 2
             ELSE IF TopicCaseStudy \in topics THEN 3
             ELSE 999

\* the comparator handed to sort
RepoCompareOldestFirst(a, b) ==
    LET priorityDiff == getTopicPriority(a) - getTopicPriority(b)
    IN  IF priorityDiff # 0 THEN priorityDiff
        ELSE DateGetTime(a.updated_at) - DateGetTime(b.updated_at)
RepoCompare(a, b) ==
    LET priorityDiff == getTopicPriority(a) - getTopicPriority(b)
    IN  IF priorityDiff # 0 THEN priorityDiff
        ELSE DateGetTime(b.updated_at) - DateGetTime(a.updated_at)

\* Array.prototype.sort with RepoCompare: the stable sort (ECMAScript 2019),
\* given by each element's rank, the number of elements that go before it.
SortReposUnstable(s) ==
    LET n == Len(s)
        rank(i) == Cardinality({j \in 1..n :
                      \/ RepoCompare(s[j], s[i]) < 0
                      \/ RepoCompare(s[j], s[i]) = 0 /\ j > i})
    IN  [k \in 1..n |-> s[CHOOSE i \in 1..n : rank(i) = k - 1]]
SortRepos(s) ==
    LET n == Len(s)
        rank(i) == Cardinality({j \in 1..n :
                      \/ RepoCompare(s[j], s[i]) < 0
                      \/ RepoCompare(s[j], s[i]) = 0 /\ j < i})
    IN  [k \in 1..n |-> s[CHOOSE i \in 1..n : rank(i) = k - 1]]

\* the predicate handed to repos.filter
KeepRepoIgnoringPrivate(repo, allowedTopics) ==
    IF repo.fork \/ repo.archived THEN FALSE
    ELSE IF allowedTopics.some THEN hasAllowedTopic(repo, allowedTopics.v)
    ELSE TRUE
KeepRepoIgnoringTopics(repo, allowedTopics) ==
    ~(repo.fork \/ repo.archived \/ repo.private)
KeepRepo(repo, allowedTopics) ==
    IF repo.fork \/ repo.archived \/ repo.private THEN FALSE
    ELSE IF allowedTopics.some THEN hasAllowedTopic(repo, allowedTopics.v)
    ELSE TRUE

filterRepositories(rs, env) ==
    LET allowedTopics == getAllowedTopics(env)
        kept == SelectIdx(rs, {i \in 1..Len(rs) : KeepRepo(rs[i], allowedTopics)}, 1)
    IN  SortRepos(kept)

\* A TypeError is thrown where .map is reached on a repository without a
\* topics array: in hasAllowedTopic and in getTopicPriority, both behind the
\* !repo.topics?.length guard.
filterRepositoriesThrows(rs, env) ==
    \E i \in 1..Len(rs) : ~NoTopics(rs[i]) /\ ~rs[i].topics.some

(***************************************************************************)
(* The inputs of filterRepositories.                                       *)
(***************************************************************************)
TopicWeb == <<"w","e","b">>
TopicChoices ==
    { None,
      Some(<<>>),
      Some(<<<<"O","n","g","o","i","n","g">>>>),
      Some(<<TopicWeb, <<"F","E","A","T","U","R","E","D">>>>),
      Some(<<TopicCaseStudy>>),
      Some(<<TopicWeb>>) }
DateChoices == { <<"2","0","2","4","-","0","3","-","0","1","T","1","0",":","0","0",":","0","0","Z">>, <<"2","0","2","4","-","0","2","-","2","9","T","2","3",":","5","9",":","5","9","Z">> }
\* every topics value with the later date; the earlier date too wherever the
\* order by date is read off (two values are enough for the rest)
VisibleShapes ==
    { r \in { [topics |-> t, updated_at |-> d, fork |-> FALSE,
               archived |-> FALSE, private |-> FALSE] :
                 t \in TopicChoices, d \in DateChoices } :
        \/ r.topics \notin {Some(<<>>), Some(<<TopicCaseStudy>>)}
        \/ \A d \in DateChoices : DateGetTime(d) <= DateGetTime(r.updated_at) }
HiddenShapes ==
    { [topics |-> Some(<<TopicWeb, <<"F","E","A","T","U","R","E","D">>>>),
       updated_at |-> <<"2","0","2","4","-","0","3","-","0","1","T","1","0",":","0","0",":","0","0","Z">>,
       fork |-> f[1], archived |-> f[2], private |-> f[3]] :
         f \in { <<TRUE, FALSE, FALSE>>, <<FALSE, TRUE, FALSE>>,
                 <<FALSE, FALSE, TRUE>> } }
RepoShapes == VisibleShapes \cup HiddenShapes

\* the API's repositories have distinct ids: here the position in the list
WithIds(shapes) ==
    [i \in 1..Len(shapes) |->
        [id |-> i, topics |-> shapes[i].topics, updated_at |-> shapes[i].updated_at,
         fork |-> shapes[i].fork, archived |-> shapes[i].archived,
         private |-> shapes[i].private]]

TopicsEnvChoices ==
    { None,
      Some(<<>>),
      Some(<<" ","F","e","a","t","u","r","e","d"," ",",","c","a","s","e","-","s","t","u","d","y">>),
      Some(<<",">>),
      Some(<<"w","e","b">>) }

IdleFilter ==
    /\ repos = <<>>
    /\ topicsEnv = None
    /\ filtered = <<>>
    /\ filterThrew = FALSE
    /\ fpc = "idle"

IdleTech ==
    /\ tsRepos = <<>>
    /\ languagesMap = <<>>
    /\ techStack = <<>>
    /\ techStack2 = <<>>
    /\ tpc = "idle"

IdleReadme ==
    /\ readme = <<>>
    /\ readmeTechs = <<>>
    /\ repoLangs = None
    /\ readmeTechStack = <<>>
    /\ rpc = "idle"

IdleDescription ==
    /\ descContent = <<>>
    /\ description = None
    /\ dpc = "idle"

IdleImage ==
    /\ imgContent = <<>>
    /\ imgUser = <<>>
    /\ image = None
    /\ ipc = "idle"

IdleBatch ==
    /\ batchKind = "none"
    /\ activeCount = 0
    /\ inputRepos = <<>>
    /\ languageMap = <<>>
    /\ readmeMapSet = FALSE
    /\ batchStart = 0
    /\ inFlight = {}
    /\ jsonFallback = {}
    /\ batchResults = <<>>
    /\ stored = <<>>
    /\ upstream = <<>>
    /\ paused = 0
    /\ bpc = "idle"

\* a cache entry before its first request
NewEntry == [status |-> "idle", data |-> None, error |-> None, failed |-> FALSE]

IdleHook ==
    /\ githubUsername = <<>>
    /\ upstreamRepos = <<>>
    /\ userSWR = NewEntry
    /\ reposSWR = NewEntry
    /\ languagesSWR = <<>>
    /\ repoDataSWR = <<>>
    /\ upstreamCalls = {}

IdleUrl ==
    /\ urlRepo = [name |-> <<>>, homepage |-> None]
    /\ customUrls = None
    /\ autoDetect = None
    /\ urlUsername = <<>>
    /\ deploymentUrl = None
    /\ upc = "idle"

NoAttempt == [turn |-> 0, data |-> "none", outcome |-> "none"]

IdleContact ==
    /\ now = 0
    /\ submissions = <<>>
    /\ submitError = None
    /\ submitSuccess = FALSE
    /\ rateLimitError = None
    /\ isSubmitting = FALSE
    /\ successTimers = 0
    /\ lastAttempt = NoAttempt
    /\ mounts = 0

IdleLast == IdleUrl /\ IdleContact

IdleLater == IdleDescription /\ IdleImage /\ IdleBatch /\ IdleHook /\ IdleLast

InitFilter ==
    /\ \E shapes \in SeqsUpTo(RepoShapes, MaxRepos) : repos = WithIds(shapes)
    /\ topicsEnv \in TopicsEnvChoices
    /\ filtered = <<>>
    /\ filterThrew = FALSE
    /\ fpc = "ready"
    /\ IdleTech
    /\ IdleReadme
    /\ IdleLater

\* const filteredRepos = repos ? filterRepositories(repos) : []
FilterRepositories ==
    /\ fpc = "ready"
    /\ filtered' = filterRepositories(repos, topicsEnv)
    /\ filterThrew' = filterRepositoriesThrows(repos, topicsEnv)
    /\ fpc' = "done"
    /\ UNCHANGED <<repos, topicsEnv>>
    /\ UNCHANGED <<techVars, readmeVars, laterVars>>

NextFilter == FilterRepositories

SpecFilter == InitFilter /\ [][NextFilter]_vars

(***************************************************************************)
(* Properties of filterRepositories.                                       *)
(***************************************************************************)
EqIgnoreCase(a, b) == ToLowerCase(a) = ToLowerCase(b)

\* the topics of a repository, none when the field is missing
TopicsOf(repo) == IF repo.topics.some THEN SeqRange(repo.topics.v) ELSE {}

Hidden(repo) == repo.fork \/ repo.archived \/ repo.private

\* C1: filterRepositories returns no repository whose fork, archived or
\* private flag is true.
C1_NoHiddenReturned ==
    fpc = "done" =>
        \A i \in 1..Len(filtered) :
            ~filtered[i].fork /\ ~filtered[i].archived /\ ~filtered[i].private

C1_Witness ==
    /\ fpc = "done"
    /\ \E i, j \in 1..Len(repos) : repos[i].fork /\ repos[j].private
    /\ Len(filtered) = 1

\* the entries of the configured allow-list: the comma-separated pieces of
\* VITE_REPO_TOPICS, trimmed, the empty ones dropped
AllowListConfigured == topicsEnv.some /\ Len(topicsEnv.v) > 0
AllowListEntries ==
    {Trim(p) : p \in SeqRange(SplitOn(topicsEnv.v, {","}))} \ {<<>>}

\* C2: with an allow-list configured, every returned repository has a topic
\* that equals, ignoring case, an entry of the allow-list; with none
\* configured, exactly the repositories that are neither fork, archived nor
\* private are returned.
C2_AllowList ==
    fpc = "done" =>
        IF AllowListConfigured
        THEN \A i \in 1..Len(filtered) :
                \E t \in TopicsOf(filtered[i]) :
                    \E e \in AllowListEntries : EqIgnoreCase(t, e)
        ELSE {filtered[i].id : i \in 1..Len(filtered)}
                = {repos[i].id : i \in {j \in 1..Len(repos) : ~Hidden(repos[j])}}

C2_Witness ==
    /\ fpc = "done"
    /\ AllowListConfigured
    /\ Len(filtered) = 1
    /\ Cardinality({i \in 1..Len(repos) : ~Hidden(repos[i])}) = 3

\* the tier of a repository as the claim words it
Tier(repo) ==
    IF \E t \in TopicsOf(repo) : EqIgnoreCase(t, TopicOngoing) THEN 1
    ELSE IF \E t \in TopicsOf(repo) : EqIgnoreCase(t, TopicFeatured) THEN 2
    ELSE IF \E t \in TopicsOf(repo) : EqIgnoreCase(t, TopicCaseStudy) THEN 3
    ELSE 999

\* ISO timestamps of one format compare as their text does
RECURSIVE TextLess(_, _, _)
TextLess(a, b, i) ==
    IF i > Len(a) \/ i > Len(b) THEN Len(a) < Len(b)
    ELSE IF a[i] = b[i] THEN TextLess(a, b, i + 1)
    ELSE \E m, n \in 1..Len(DigitChars) :
            DigitChars[m] = a[i] /\ DigitChars[n] = b[i] /\ m < n

\* C3: the returned list is ordered by tier ascending and, within a tier, by
\* updated_at descending.
C3_Ordered ==
    fpc = "done" =>
        \A i \in 1..(Len(filtered) - 1) :
            LET a == filtered[i]
                b == filtered[i + 1]
            IN  /\ Tier(a) <= Tier(b)
                /\ Tier(a) = Tier(b) => ~TextLess(a.updated_at, b.updated_at, 1)

C3_Witness ==
    /\ fpc = "done"
    /\ Len(filtered) = 3
    /\ Tier(filtered[1]) = Tier(filtered[2])
    /\ TextLess(filtered[2].updated_at, filtered[1].updated_at, 1)
    /\ Tier(filtered[2]) < Tier(filtered[3])
    /\ filtered[1].id > filtered[2].id
    /\ filtered[2].id > filtered[3].id

\* C4: repositories of equal tier and equal updated_at keep their input
\* order, the call does not throw, and the empty list yields the empty list.
C4_StableNoThrow ==
    fpc = "done" =>
        /\ ~filterThrew
        /\ repos = <<>> => filtered = <<>>
        /\ \A i, j \in 1..Len(filtered) :
              (/\ i < j
               /\ Tier(filtered[i]) = Tier(filtered[j])
               /\ filtered[i].updated_at = filtered[j].updated_at)
              => filtered[i].id < filtered[j].id

C4_Witness ==
    /\ fpc = "done"
    /\ ~filterThrew
    /\ Len(filtered) = 3
    /\ \E i \in 1..Len(repos) : ~repos[i].topics.some
    /\ Tier(filtered[1]) = 999
    /\ filtered[1].updated_at = filtered[3].updated_at
    /\ filtered[1].id < filtered[2].id /\ filtered[2].id < filtered[3].id

(***************************************************************************)
(* utils/githubHelpers: calculateTechStack.                                *)
(*                                                                         *)
(* An object ({ [key]: number }) is the sequence of its entries in         *)
(* insertion order, which is the order Object.entries gives for keys that  *)
(* are not integers; a Map is the sequence of its [key, val] entries.  A   *)
(* percentage is kept exactly, as the fraction num / den.                  *)
(***************************************************************************)
TopN == 12
ReadmeWeightBase == 10000
ReadmeWeightStep == 100

DefaultSpecialRepo == <<"r","u","s","y","d","i","a","h","m","a","d","y","u","s","o","f">>
ReadmeKeyPrefix == <<"_","_","r","e","a","d","m","e","_","_">>

\* import.meta.env.VITE_SPECIAL_TECH_REPO || 'rusydiahmadyusof'
SpecialRepoName(env) == IF env.some /\ env.v # <<>> THEN env.v ELSE DefaultSpecialRepo

\* languagesMap.get(key)
MapGet(lm, key) ==
    IF \E i \in 1..Len(lm) : lm[i].key = key
    THEN Some(lm[CHOOSE i \in 1..Len(lm) : lm[i].key = key].val)
    ELSE None

\* totalBytes[name] = (totalBytes[name] || 0) + weight
AddWeight(totalBytes, name, weight) ==
    IF \E i \in 1..Len(totalBytes) : totalBytes[i].name = name
    THEN LET i == CHOOSE k \in 1..Len(totalBytes) : totalBytes[k].name = name
         IN  [totalBytes EXCEPT ![i].bytes = @ + weight]
    ELSE Append(totalBytes, [name |-> name, bytes |-> weight])

\* Object.entries(langs).forEach(([lang, bytes]) => ...)
RECURSIVE AddEntries(_, _, _)
AddEntries(totalBytes, entries, i) ==
    IF i > Len(entries) THEN totalBytes
    ELSE AddEntries(AddWeight(totalBytes, entries[i].name, entries[i].bytes),
                    entries, i + 1)

\* const weight = 10000 - index * 100, index counted from 0
ReadmeWeightDroppedZero(index) == 1000 - index * ReadmeWeightStep
ReadmeWeight(index) == ReadmeWeightBase - index * ReadmeWeightStep

\* repo.readmeTechStack.forEach((tech, index) => ...)
RECURSIVE AddReadmeTechs(_, _, _)
AddReadmeTechs(totalBytes, techs, i) ==
    IF i > Len(techs) THEN totalBytes
    ELSE AddReadmeTechs(AddWeight(totalBytes, techs[i], ReadmeWeight(i - 1)),
                        techs, i + 1)

\* the body of repos.forEach(repo => ...)
AddRepo(totalBytes, repo, lm) ==
    LET langs == MapGet(lm, repo.name)
        withLangs == IF langs.some THEN AddEntries(totalBytes, langs.v, 1)
                     ELSE totalBytes
    IN  IF repo.readmeTechStack.some /\ Len(repo.readmeTechStack.v) > 0
        THEN AddReadmeTechs(withLangs, repo.readmeTechStack.v, 1)
        ELSE withLangs

RECURSIVE AddRepos(_, _, _, _)
AddRepos(totalBytes, rs, lm, i) ==
    IF i > Len(rs) THEN totalBytes
    ELSE AddRepos(AddRepo(totalBytes, rs[i], lm), rs, lm, i + 1)

\* the entry of the special repository's README, added last
AddSpecialReadme(totalBytes, lm, env) ==
    LET readmeStack == MapGet(lm, ReadmeKeyPrefix \o SpecialRepoName(env))
    IN  IF readmeStack.some THEN AddEntries(totalBytes, readmeStack.v, 1)
        ELSE totalBytes

\* Object.values(totalBytes).reduce((sum, bytes) => sum + bytes, 0)
RECURSIVE SumBytes(_, _)
SumBytes(totalBytes, i) ==
    IF i > Len(totalBytes) THEN 0
    ELSE totalBytes[i].bytes + SumBytes(totalBytes, i + 1)

\* total > 0 ? (bytes / total) * 100 : 0
PercentageRounded(bytes, total) ==
    IF total > 0
    THEN [num |-> ((bytes * 100 + total \div 2) \div total) * total, den |-> total]
    ELSE [num |-> 0, den |-> 1]
Percentage(bytes, total) ==
    IF total > 0 THEN [num |-> bytes * 100, den |-> total]
    ELSE [num |-> 0, den |-> 1]

\* .sort((a, b) => b.bytes - a.bytes): the stable sort, by rank
SortByBytes(items) ==
    LET n == Len(items)
        rank(i) == Cardinality({j \in 1..n :
                      \/ items[j].bytes > items[i].bytes
                      \/ items[j].bytes = items[i].bytes /\ j < i})
    IN  [k \in 1..n |-> items[CHOOSE i \in 1..n : rank(i) = k - 1]]

\* .slice(0, 12)
TopSliceOneMore(items) == Slice(items, 1, IF Len(items) < TopN + 1 THEN Len(items) ELSE TopN + 1)
TopSlice(items) == Slice(items, 1, IF Len(items) < TopN THEN Len(items) ELSE TopN)

calculateTechStack(rs, lm, env) ==
    LET totalBytes == AddSpecialReadme(AddRepos(<<>>, rs, lm, 1), lm, env)
        total == SumBytes(totalBytes, 1)
        items == [i \in 1..Len(totalBytes) |->
                    [name |-> totalBytes[i].name,
                     bytes |-> totalBytes[i].bytes,
                     percentage |-> Percentage(totalBytes[i].bytes, total)]]
    IN  TopSlice(SortByBytes(items))

\* What a call leaves in its arguments: every write of calculateTechStack
\* goes to its own totalBytes object, none to repos or languagesMap.
ArgumentsAfterCallAliased(rs, lm, env) ==
    [repos |-> rs,
     languagesMap |->
        IF Len(rs) > 0 /\ MapGet(lm, rs[1].name).some
        THEN LET i == CHOOSE k \in 1..Len(lm) : lm[k].key = rs[1].name
             IN  [lm EXCEPT ![i].val =
                     AddSpecialReadme(AddRepos(lm[i].val, rs, lm, 1), lm, env)]
        ELSE lm]
ArgumentsAfterCall(rs, lm, env) == [repos |-> rs, languagesMap |-> lm]

(***************************************************************************)
(* The inputs of calculateTechStack.                                       *)
(***************************************************************************)
MaxTechRepos == 2

Entry(name, bytes) == [name |-> name, bytes |-> bytes]

NameTypeScript == <<"T","y","p","e","S","c","r","i","p","t">>
NameCSS == <<"C","S","S">>
NameCss == <<"C","s","s">>
NameReact == <<"R","e","a","c","t">>

\* GET /repos/{user}/{repo}/languages: none (no entry in the map) and four
\* answers
LangsSmall == << Entry(NameTypeScript, 800), Entry(NameCSS, 200) >>
LangsBig ==
    << Entry(NameTypeScript, 250000), Entry(<<"H","T","M","L">>, 12000),
       Entry(NameCSS, 10000), Entry(<<"S","h","e","l","l">>, 300) >>
LangsOther ==
    << Entry(<<"P","y","t","h","o","n">>, 9000), Entry(<<"G","o">>, 4000),
       Entry(<<"M","a","k","e","f","i","l","e">>, 100), Entry(<<"D","o","c","k","e","r","f","i","l","e">>, 0) >>
LangsEmptyFile == << Entry(<<"D","o","c","k","e","r","f","i","l","e">>, 0) >>
LangsChoices ==
    { None, Some(LangsSmall), Some(LangsBig), Some(LangsOther),
      Some(LangsEmptyFile) }

\* readmeTechStack: undefined, [], lists as parseCategorizedTechStackFromReadme
\* returns them (normalised, other names title-cased: "CSS" becomes "Css"),
\* and the top languages that useGitHub puts in place of an empty list
ReadmeStackChoices ==
    { None,
      Some(<<>>),
      Some(<<NameReact>>),
      Some(<<<<"N","e","x","t",".","j","s">>, <<"T","a","i","l","w","i","n","d"," ","C","S","S">>, NameCss, <<"F","i","r","e","b","a","s","e">>, <<"E","x","p","r","e","s","s">>>>),
      Some(<<NameTypeScript, <<"H","T","M","L">>, NameCSS, <<"S","h","e","l","l">>>>) }

\* readmeMap[tech] = 50000 - index * 1000, index counted from 0
ProfileWeightBase == 50000
ProfileWeightStep == 1000
ProfileWeightFlat(index) == ProfileWeightBase
ProfileWeight(index) == ProfileWeightBase - index * ProfileWeightStep

\* the entry fetchAllRepoLanguages makes of the special repository's README:
\* readmeTechStack.forEach((tech, index) => { readmeMap[tech] = ... }), for a
\* list without repeated names, as parseTechStackFromReadme returns it
readmeMap(techs) ==
    [i \in 1..Len(techs) |-> Entry(techs[i], ProfileWeight(i - 1))]

ProfileStack == readmeMap(<< NameReact, <<"V","u","e">> >>)
ProfileStackLong == readmeMap(<< NameTypeScript, NameReact, NameCSS >>)
ProfileChoices == { None, Some(ProfileStack), Some(ProfileStackLong) }

TechShapes == { [langs |-> l, readme |-> r] : l \in LangsChoices, r \in ReadmeStackChoices }

\* repository names are distinct
RepoName(i) == <<"r","e","p","o">> \o <<DigitChars[i + 1]>>

ReposOf(shapes) ==
    [i \in 1..Len(shapes) |->
        [name |-> RepoName(i), readmeTechStack |-> shapes[i].readme]]

\* the map as fetchAllRepoLanguages fills it: the README entry first, then
\* one entry per repository
RECURSIVE LangEntries(_, _)
LangEntries(shapes, i) ==
    IF i > Len(shapes) THEN <<>>
    ELSE (IF shapes[i].langs.some
          THEN << [key |-> RepoName(i), val |-> shapes[i].langs.v] >>
          ELSE <<>>) \o LangEntries(shapes, i + 1)

LanguagesMapOf(shapes, profile) ==
    (IF profile.some
     THEN << [key |-> ReadmeKeyPrefix \o DefaultSpecialRepo, val |-> profile.v] >>
     ELSE <<>>) \o LangEntries(shapes, 1)

\* VITE_SPECIAL_TECH_REPO is not set
SpecialTechRepoEnv == None

InitTech ==
    /\ \E shapes \in SeqsUpTo(TechShapes, MaxTechRepos) :
          \E profile \in ProfileChoices :
              /\ tsRepos = ReposOf(shapes)
              /\ languagesMap = LanguagesMapOf(shapes, profile)
    /\ techStack = <<>>
    /\ techStack2 = <<>>
    /\ tpc = "ready"
    /\ IdleFilter
    /\ IdleReadme
    /\ IdleLater

\* techStack = calculateTechStack(reposWithDescriptions, languagesMap)
CalculateFirst ==
    /\ tpc = "ready"
    /\ techStack' = calculateTechStack(tsRepos, languagesMap, SpecialTechRepoEnv)
    /\ tsRepos' = ArgumentsAfterCall(tsRepos, languagesMap, SpecialTechRepoEnv).repos
    /\ languagesMap' =
          ArgumentsAfterCall(tsRepos, languagesMap, SpecialTechRepoEnv).languagesMap
    /\ tpc' = "ran1"
    /\ UNCHANGED techStack2
    /\ UNCHANGED <<filterVars, readmeVars, laterVars>>

\* the same call once more, on the arguments as the first call left them
CalculateSecond ==
    /\ tpc = "ran1"
    /\ techStack2' = calculateTechStack(tsRepos, languagesMap, SpecialTechRepoEnv)
    /\ tsRepos' = ArgumentsAfterCall(tsRepos, languagesMap, SpecialTechRepoEnv).repos
    /\ languagesMap' =
          ArgumentsAfterCall(tsRepos, languagesMap, SpecialTechRepoEnv).languagesMap
    /\ tpc' = "ran2"
    /\ UNCHANGED techStack
    /\ UNCHANGED <<filterVars, readmeVars, laterVars>>

NextTech == CalculateFirst \/ CalculateSecond

SpecTech == InitTech /\ [][NextTech]_vars

(***************************************************************************)
(* Properties of calculateTechStack.  The weight of a name is stated here  *)
(* from the arguments, as a sum over the repositories, and not by the      *)
(* accumulation the function performs.                                     *)
(***************************************************************************)
RECURSIVE SumSeq(_)
SumSeq(s) == IF s = <<>> THEN 0 ELSE Head(s) + SumSeq(Tail(s))

\* the bytes entries[..] hold for name n
BytesFor(entries, n) ==
    SumSeq([k \in 1..Len(entries) |-> IF entries[k].name = n THEN entries[k].bytes ELSE 0])

RepoLangs(i) ==
    LET langs == MapGet(languagesMap, tsRepos[i].name)
    IN  IF langs.some THEN langs.v ELSE <<>>

RepoReadme(i) ==
    IF tsRepos[i].readmeTechStack.some THEN tsRepos[i].readmeTechStack.v ELSE <<>>

ProfileEntries ==
    LET e == MapGet(languagesMap, ReadmeKeyPrefix \o DefaultSpecialRepo)
    IN  IF e.some THEN e.v ELSE <<>>

\* the language bytes of n over all repositories
LangBytes(n) == SumSeq([i \in 1..Len(tsRepos) |-> BytesFor(RepoLangs(i), n)])

\* 10000 - 100 j for every repository that lists n at index j
ReadmeScore(n) ==
    SumSeq([i \in 1..Len(tsRepos) |->
        SumSeq([k \in 1..Len(RepoReadme(i)) |->
            IF RepoReadme(i)[k] = n THEN 10000 - 100 * (k - 1) ELSE 0])])

Weight(n) == LangBytes(n) + ReadmeScore(n) + BytesFor(ProfileEntries, n)

LangNames == UNION {{RepoLangs(i)[k].name : k \in 1..Len(RepoLangs(i))} : i \in 1..Len(tsRepos)}
ReadmeNames == UNION {SeqRange(RepoReadme(i)) : i \in 1..Len(tsRepos)}
ProfileNames == {ProfileEntries[k].name : k \in 1..Len(ProfileEntries)}
AccumulatedNames == LangNames \cup ReadmeNames \cup ProfileNames

RECURSIVE SumWeights(_)
SumWeights(S) ==
    IF S = {} THEN 0
    ELSE LET n == CHOOSE x \in S : TRUE IN Weight(n) + SumWeights(S \ {n})

GrandTotal == SumWeights(AccumulatedNames)

Returned == tpc = "ran1"

SumOfPercentageNums == SumSeq([i \in 1..Len(techStack) |-> techStack[i].percentage.num])
SumOfReturnedBytes == SumSeq([i \in 1..Len(techStack) |-> techStack[i].bytes])

\* C5 as claimed: whenever the grand total is nonzero, the returned
\* percentages sum to 100, whatever the number of accumulated names.
C5_PercentagesSumTo100 ==
    Returned =>
        LET total == GrandTotal
        IN  total # 0 =>
              /\ \A i \in 1..Len(techStack) : techStack[i].percentage.den = total
              /\ SumOfPercentageNums = 100 * total

\* C5 (amended): when the grand total is positive and at most 12 distinct
\* names are accumulated, the returned percentages sum to 100 and the
\* returned weights sum to the grand total.
C5_SumTo100UpToTwelveNames ==
    Returned =>
        LET total == GrandTotal
        IN  (total > 0 /\ Cardinality(AccumulatedNames) <= 12) =>
              /\ \A i \in 1..Len(techStack) : techStack[i].percentage.den = total
              /\ SumOfPercentageNums = 100 * total
              /\ SumOfReturnedBytes = total

C5_Witness ==
    /\ Returned
    /\ GrandTotal > 0
    /\ Cardinality(AccumulatedNames) = 12
    /\ Len(techStack) = 12
    /\ ProfileNames # {}

\* C6 as claimed: the returned list never holds two names that are equal
\* ignoring case.
C6_NoCaseDuplicates ==
    Returned =>
        \A i, j \in 1..Len(techStack) :
            i # j => ~EqIgnoreCase(techStack[i].name, techStack[j].name)

\* the technologies some repository lists first in its README list, and those
\* that occur in language byte counts only
ReadmeFirstNames ==
    {RepoReadme(i)[1] : i \in {k \in 1..Len(tsRepos) : Len(RepoReadme(k)) > 0}}
ByteOnlyNames == LangNames \ (ReadmeNames \cup ProfileNames)

Position(n) ==
    IF \E i \in 1..Len(techStack) : techStack[i].name = n
    THEN CHOOSE i \in 1..Len(techStack) : techStack[i].name = n
    ELSE 0

\* r is returned before l whenever l is returned
RanksAbove(r, l) == Position(l) # 0 => (Position(r) # 0 /\ Position(r) < Position(l))

\* C7 as claimed: a technology listed first in a README list ranks above
\* every technology that occurs only in language byte counts.
C7_ReadmeFirstOutranksAllBytes ==
    Returned =>
        \A r \in ReadmeFirstNames : \A l \in ByteOnlyNames : RanksAbove(r, l)

\* C7 (amended): it ranks above every such technology whose language bytes,
\* summed over the repositories, are below 10000.
C7_ReadmeFirstOutranksSmallBytes ==
    Returned =>
        \A r \in ReadmeFirstNames : \A l \in ByteOnlyNames :
            LangBytes(l) < 10000 => RanksAbove(r, l)

C7_Witness ==
    /\ Returned
    /\ \E r \in ReadmeFirstNames : \E l \in ByteOnlyNames :
          /\ LangBytes(l) < 10000 /\ LangBytes(l) > 8000
          /\ Weight(r) = 10000
          /\ Position(r) # 0 /\ Position(l) = Position(r) + 1

\* C8: at most 12 entries, by weight descending, the heaviest of the
\* accumulated names, each with its weight and with the percentage
\* weight / grand total * 100, or 0 when the grand total is 0.
C8_TopTwelve ==
    Returned =>
        LET total == GrandTotal
            names == AccumulatedNames
        IN
        /\ Len(techStack) <= 12
        /\ Len(techStack) =
              IF Cardinality(names) < 12
              THEN Cardinality(names) ELSE 12
        /\ \A i \in 1..(Len(techStack) - 1) : techStack[i].bytes >= techStack[i + 1].bytes
        /\ \A i, j \in 1..Len(techStack) : i # j => techStack[i].name # techStack[j].name
        /\ \A i \in 1..Len(techStack) :
              /\ techStack[i].name \in names
              /\ techStack[i].bytes = Weight(techStack[i].name)
              /\ IF total = 0 THEN techStack[i].percentage.num = 0
                 ELSE /\ techStack[i].percentage.num = techStack[i].bytes * 100
                      /\ techStack[i].percentage.den = total
        /\ \A n \in names :
              Position(n) = 0 => \A i \in 1..Len(techStack) : Weight(n) <= techStack[i].bytes

C8_Witness ==
    /\ Returned
    /\ Cardinality(AccumulatedNames) > 13
    /\ Len(techStack) = 12
    /\ techStack[1].bytes > techStack[12].bytes

C8_WitnessZeroTotal ==
    /\ Returned
    /\ GrandTotal = 0
    /\ Len(techStack) > 0

BulletChar == "&bull;"
WordChars == SeqRange(UpperChars) \cup SeqRange(LowerChars) \cup SeqRange(DigitChars) \cup {"_"}

Atom(t, neg, set, q, g, alts) ==
    [t |-> t, neg |-> neg, set |-> set, q |-> q, g |-> g, alts |-> alts]

Cls(set) == Atom("cls", FALSE, set, "1", 0, <<>>)
NotCls(set) == Atom("cls", TRUE, set, "1", 0, <<>>)
Ch(c) == Cls({c})
AnyChar == NotCls({})
Space == Cls(WhiteSpace)
Opt(a) == [a EXCEPT !.q = "?"]
Star(a) == [a EXCEPT !.q = "*"]
Plus(a) == [a EXCEPT !.q = "+"]
LazyStar(a) == [a EXCEPT !.q = "*?"]
Open(g) == Atom("open", FALSE, {}, "1", g, <<>>)
Close(g) == Atom("close", FALSE, {}, "1", g, <<>>)
Bol == Atom("bol", FALSE, {}, "1", 0, <<>>)
Eol == Atom("eol", FALSE, {}, "1", 0, <<>>)
WordBoundary == Atom("wb", FALSE, {}, "1", 0, <<>>)
Ahead(alts) == Atom("ahead", FALSE, {}, "1", 0, alts)

\* a literal: its characters in a row
Lit(str) == <<Atom("lit", FALSE, {}, "1", 0, str)>>

Regex(alts, ci) == [alts |-> alts, ci |-> ci]

NoCaptures == << [from |-> 1, to |-> 0], [from |-> 1, to |-> 0] >>
NoMatch == [ok |-> FALSE, start |-> 0, end |-> 0, caps |-> NoCaptures]

\* whether character c is in the class of atom a
InClass(a, ci, c) ==
    LET cc == IF ci THEN LowerChar(c) ELSE c
    IN  IF a.neg THEN cc \notin a.set ELSE cc \in a.set

\* the distance from pos to the first of the positions, or to the end of s
RunUpTo(stops, s, pos) ==
    IF pos > Len(s) THEN 0
    ELSE IF stops = {} THEN Len(s) - pos + 1
    ELSE (CHOOSE p \in stops : \A q \in stops : p <= q) - pos

\* the number of characters from pos on that are in the class of a
RunLength(a, ci, s, pos) ==
    RunUpTo({p \in pos..Len(s) : ~InClass(a, ci, s[p])}, s, pos)

\* of the attempts [i, m], made in the order of i, the first that matched
FirstOk(tries) ==
    LET ok == {t \in tries : t.m.ok}
    IN  IF ok = {} THEN NoMatch
        ELSE (CHOOSE t \in ok : \A u \in ok : t.i <= u.i).m

\* whether the characters of the literal stand in s from pos on
LitAt(str, ci, s, pos) ==
    /\ pos + Len(str) - 1 <= Len(s)
    /\ \A i \in 1..Len(str) :
          (IF ci THEN LowerChar(s[pos + i - 1]) ELSE s[pos + i - 1]) = str[i]

IsWordAt(s, pos) == pos >= 1 /\ pos <= Len(s) /\ s[pos] \in WordChars

\* where a match may stand after atom a, taken at pos: the positions in the
\* order in which backtracking tries them (a greedy quantifier from its
\* longest run down, a lazy one from the shortest up)
Candidates(a, ci, s, pos) ==
    LET run == RunLength(a, ci, s, pos)
        down(hi, lo) == [i \in 1..(hi - lo + 1) |-> pos + hi - i + 1]
        up(lo, hi) == [i \in 1..(hi - lo + 1) |-> pos + lo + i - 1]
    IN  CASE a.t = "cls" /\ a.q = "1" -> down(IF run > 0 THEN 1 ELSE 0, 1)
          [] a.t = "cls" /\ a.q = "?" -> down(IF run > 0 THEN 1 ELSE 0, 0)
          [] a.t = "cls" /\ a.q = "*" -> down(run, 0)
          [] a.t = "cls" /\ a.q = "+" -> down(run, 1)
          [] a.t = "cls" /\ a.q = "*?" -> up(0, run)
          [] a.t = "bol" -> IF pos = 1 THEN <<pos>> ELSE <<>>
          [] a.t = "eol" -> IF pos = Len(s) + 1 THEN <<pos>> ELSE <<>>
          [] a.t = "wb" -> IF IsWordAt(s, pos - 1) # IsWordAt(s, pos) THEN <<pos>> ELSE <<>>

RECURSIVE MatchFrom(_, _, _, _, _, _)
RECURSIVE FirstMatch(_, _, _, _, _, _)

\* atoms[k..] against s from pos on: the first match in backtracking order;
\* end is the position after the match
MatchFrom(atoms, ci, k, s, pos, caps) ==
    LET t == IF k > Len(atoms) THEN "end" ELSE atoms[k].t
    IN  CASE t = "end" -> [ok |-> TRUE, start |-> 0, end |-> pos, caps |-> caps]
          [] t = "open" ->
                MatchFrom(atoms, ci, k + 1, s, pos, [caps EXCEPT ![atoms[k].g].from = pos])
          [] t = "close" ->
                MatchFrom(atoms, ci, k + 1, s, pos, [caps EXCEPT ![atoms[k].g].to = pos - 1])
          [] t = "lit" /\ LitAt(atoms[k].alts, ci, s, pos) ->
                MatchFrom(atoms, ci, k + 1, s, pos + Len(atoms[k].alts), caps)
          [] t = "lit" /\ ~LitAt(atoms[k].alts, ci, s, pos) -> NoMatch
          [] t = "ahead" /\ (\E j \in 1..Len(atoms[k].alts) :
                                MatchFrom(atoms[k].alts[j], ci, 1, s, pos, caps).ok) ->
                MatchFrom(atoms, ci, k + 1, s, pos, caps)
          [] t = "ahead" /\ ~(\E j \in 1..Len(atoms[k].alts) :
                                 MatchFrom(atoms[k].alts[j], ci, 1, s, pos, caps).ok) -> NoMatch
          [] OTHER -> FirstMatch(atoms, ci, k + 1, s, caps, Candidates(atoms[k], ci, s, pos))

\* atoms[k..] from the first of the candidates from which they match
FirstMatch(atoms, ci, k, s, caps, cands) ==
    CASE cands = <<>> -> NoMatch
      [] Len(cands) = 1 -> MatchFrom(atoms, ci, k, s, cands[1], caps)
      [] OTHER -> FirstOk({[i |-> i, m |-> MatchFrom(atoms, ci, k, s, cands[i], caps)] :
                              i \in 1..Len(cands)})

\* the alternatives in order at one start position
MatchAltsAt(re, s, pos) ==
    [FirstOk({[i |-> j, m |-> MatchFrom(re.alts[j], re.ci, 1, s, pos, NoCaptures)] :
                 j \in 1..Len(re.alts)}) EXCEPT !.start = pos]

\* whether some alternative can begin at pos: one that begins with a
\* literal, or with a class taken at least once, needs its character there
CanStartAt(re, s, pos) ==
    \E j \in 1..Len(re.alts) :
        \/ re.alts[j] = <<>>
        \/ re.alts[j][1].t = "lit" /\ LitAt(re.alts[j][1].alts, re.ci, s, pos)
        \/ re.alts[j][1].t = "cls" /\ re.alts[j][1].q \notin {"1", "+"}
        \/ re.alts[j][1].t = "cls" /\ pos <= Len(s) /\ InClass(re.alts[j][1], re.ci, s[pos])
        \/ re.alts[j][1].t \notin {"lit", "cls"}

\* RegExp.prototype.exec with lastIndex = from - 1: the leftmost match
Exec(re, s, from) ==
    IF from > Len(s) + 1 THEN NoMatch
    ELSE FirstOk({[i |-> p, m |-> MatchAltsAt(re, s, p)] :
                     p \in {q \in from..(Len(s) + 1) : CanStartAt(re, s, q)}})

\* RegExp.prototype.test, String.prototype.match without the g flag
Test(re, s) == Exec(re, s, 1).ok

\* the text of a match, and of its capture group g
Matched(s, m) == Slice(s, m.start, m.end - 1)
Group(s, m, g) == Slice(s, m.caps[g].from, m.caps[g].to)

\* the successive matches of a g-flagged expression (while ((match =
\* pattern.exec(s)) !== null)); none of the expressions matches the empty
\* string
RECURSIVE ExecAll(_, _, _)
RECURSIVE ExecAllAfter(_, _, _)
ExecAll(re, s, from) == ExecAllAfter(re, s, Exec(re, s, from))
ExecAllAfter(re, s, m) == IF ~m.ok THEN <<>> ELSE <<m>> \o ExecAll(re, s, m.end)

\* s.replace(re, by) for a g-flagged expression and a fixed replacement
RECURSIVE ReplaceAllFrom(_, _, _, _)
RECURSIVE ReplaceAllAfter(_, _, _, _, _)
ReplaceAllFrom(re, s, by, from) == ReplaceAllAfter(re, s, by, from, Exec(re, s, from))
ReplaceAllAfter(re, s, by, from, m) ==
    IF ~m.ok THEN Slice(s, from, Len(s))
    ELSE Slice(s, from, m.start - 1) \o by \o ReplaceAllFrom(re, s, by, m.end)

ReplaceAll(re, s, by) == IF s = <<>> THEN s ELSE ReplaceAllFrom(re, s, by, 1)

\* s with the match m replaced
ReplaceMatch(s, by, m) ==
    IF ~m.ok THEN s
    ELSE Slice(s, 1, m.start - 1) \o by \o Slice(s, m.end, Len(s))

\* s.replace(re, by) without the g flag: the first match only
ReplaceFirst(re, s, by) == IF s = <<>> THEN s ELSE ReplaceMatch(s, by, Exec(re, s, 1))

(***************************************************************************)
(* services/github: parseCategorizedTechStackFromReadme.                   *)
(***************************************************************************)
\* the code units of the class [🛠️]
EmojiUnits == {"&#xD83D;", "&#xDEE0;", "&#xFE0F;"}

\* (?:###|##)\s*[🛠️]*\s* TITLE [\s\S]*?(?=(?:###|##|$))
SectionPattern(hashes, title) ==
    hashes \o <<Star(Space), Star(Cls(EmojiUnits)), Star(Space)>> \o title
        \o <<LazyStar(AnyChar), Ahead(<<Lit(<<"#","#","#">>), Lit(<<"#","#">>), <<Eol>>>>)>>

\* /(?:###|##)\s*[🛠️]*\s*Tech\s*Stack[\s\S]*?(?=(?:###|##|$))/i
TitleTechStack == Lit(<<"t","e","c","h">>) \o <<Star(Space)>> \o Lit(<<"s","t","a","c","k">>)
TechStackSection ==
    Regex(<< SectionPattern(Lit(<<"#","#","#">>), TitleTechStack),
             SectionPattern(Lit(<<"#","#">>), TitleTechStack) >>, TRUE)

\* /(?:###|##)\s*[🛠️]*\s*(?:Technologies|Stack|Tech|Built\s+With)[\s\S]*?(?=(?:###|##|$))/i
OtherTitles ==
    << Lit(<<"t","e","c","h","n","o","l","o","g","i","e","s">>), Lit(<<"s","t","a","c","k">>), Lit(<<"t","e","c","h">>),
       Lit(<<"b","u","i","l","t">>) \o <<Plus(Space)>> \o Lit(<<"w","i","t","h">>) >>
OtherTechSection ==
    Regex([j \in 1..(2 * Len(OtherTitles)) |->
              SectionPattern(IF j <= Len(OtherTitles) THEN Lit(<<"#","#","#">>) ELSE Lit(<<"#","#">>),
                             OtherTitles[((j - 1) % Len(OtherTitles)) + 1])], TRUE)

allowedCategories == << <<"f","r","o","n","t","e","n","d">>, <<"b","a","c","k","e","n","d">>, <<"f","r","a","m","e","w","o","r","k">>, <<"f","r","o","n","t","-","e","n","d">>, <<"b","a","c","k","-","e","n","d">> >>

\* \s*([^\n]+) : the values after a label
ValuesTail == <<Star(Space), Open(2), Plus(NotCls({"\n"})), Close(2)>>
\* ([^*:]+) , ([^*]+) , ([^:]+) : the label
LabelNoStarColon == <<Open(1), Plus(NotCls({"*", ":"})), Close(1)>>
LabelNoStar == <<Open(1), Plus(NotCls({"*"})), Close(1)>>
LabelNoColon == <<Open(1), Plus(NotCls({":"})), Close(1)>>

patterns ==
    << \* /\*\s+\*\*([^*:]+):\*\*\s*([^\n]+)/g
       Regex(<< <<Ch("*"), Plus(Space)>> \o Lit(<<"*","*">>) \o LabelNoStarColon
                  \o Lit(<<":","*","*">>) \o ValuesTail >>, FALSE),
       \* /\*\s+\*\*([^*]+)\*\*\s*([^\n]+)/g
       Regex(<< <<Ch("*"), Plus(Space)>> \o Lit(<<"*","*">>) \o LabelNoStar
                  \o Lit(<<"*","*">>) \o ValuesTail >>, FALSE),
       \* /-\s+\*\*([^*:]+):\*\*\s*([^\n]+)/g
       Regex(<< <<Ch("-"), Plus(Space)>> \o Lit(<<"*","*">>) \o LabelNoStarColon
                  \o Lit(<<":","*","*">>) \o ValuesTail >>, FALSE),
       \* /-\s+([^:]+):\s*([^\n]+)/g
       Regex(<< <<Ch("-"), Plus(Space)>> \o LabelNoColon \o Lit(<<":">>) \o ValuesTail >>, FALSE),
       \* /\*\s+([^:]+):\s*([^\n]+)/g
       Regex(<< <<Ch("*"), Plus(Space)>> \o LabelNoColon \o Lit(<<":">>) \o ValuesTail >>, FALSE),
       \* /\*\*([^*:]+):\*\*\s*([^\n]+)/g
       Regex(<< Lit(<<"*","*">>) \o LabelNoStarColon \o Lit(<<":","*","*">>) \o ValuesTail >>, FALSE) >>

\* /\s+/g
SpaceRun == Regex(<< <<Plus(Space)>> >>, FALSE)
\* /[^a-z0-9]/g
NotLowerAlnum ==
    Regex(<< <<NotCls(SeqRange(LowerChars) \cup SeqRange(DigitChars))>> >>, FALSE)
\* /\s*\([^)]*\)\s*/g
Parenthetical ==
    Regex(<< <<Star(Space), Ch("("), Star(NotCls({")"})), Ch(")"), Star(Space)>> >>, FALSE)
\* /^[-•*]\s*/ and /\s*[-•*]\s*$/
LeadingBullet == Regex(<< <<Bol, Cls({"-", BulletChar, "*"}), Star(Space)>> >>, FALSE)
TrailingBullet ==
    Regex(<< <<Star(Space), Cls({"-", BulletChar, "*"}), Star(Space), Eol>> >>, FALSE)
\* /^and\s/i, /^or\s/i, /^with\s/i
LeadingConnectives ==
    << Regex(<< <<Bol>> \o Lit(<<"a","n","d">>) \o <<Space>> >>, TRUE),
       Regex(<< <<Bol>> \o Lit(<<"o","r">>) \o <<Space>> >>, TRUE),
       Regex(<< <<Bol>> \o Lit(<<"w","i","t","h">>) \o <<Space>> >>, TRUE) >>

\* match[1].trim().toLowerCase().replace(/\s+/g, '-')
LabelOf(text) == ReplaceAll(SpaceRun, ToLowerCase(Trim(text)), <<"-">>)

\* normalizedLabel.includes(normalizedCat) || normalizedLabel === normalizedCat
LabelHasCategory(normalizedLabel, normalizedCat) ==
    Includes(normalizedLabel, normalizedCat) \/ normalizedLabel = normalizedCat

\* allowedCategories.some(cat => ...)
isAllowedCategory(label) ==
    \E c \in 1..Len(allowedCategories) :
        LabelHasCategory(ReplaceAll(NotLowerAlnum, label, <<>>),
                         ReplaceAll(NotLowerAlnum, allowedCategories[c], <<>>))

\* the .map(...) of one piece of the values
CleanItem(item) ==
    ReplaceFirst(TrailingBullet,
        ReplaceFirst(LeadingBullet,
            ReplaceAll(SpaceRun,
                ReplaceAll(Parenthetical, Trim(item), <<>>),
                <<" ">>),
            <<>>),
        <<>>)

\* the .filter(...) of the cleaned pieces
KeepItem(item) ==
    /\ Len(item) > 1
    /\ item[Len(item)] # ":"
    /\ \A c \in 1..Len(LeadingConnectives) : ~Test(LeadingConnectives[c], item)

\* the cleaned pieces the filter keeps
KeptItems(cleaned) ==
    SelectIdx(cleaned, {i \in 1..Len(cleaned) : KeepItem(cleaned[i])}, 1)

\* values.split(/[,|•\n]/).map(...).filter(...)
ItemsOf(values) ==
    LET pieces == SplitOn(values, {",", "|", BulletChar, "\n"})
    IN  KeptItems([i \in 1..Len(pieces) |-> CleanItem(pieces[i])])

\* s.split(/\s+/)
RECURSIVE SplitOnSpaceRuns(_, _)
RECURSIVE SplitAfter(_, _, _)
SplitOnSpaceRuns(s, from) == SplitAfter(s, from, Exec(SpaceRun, s, from))
SplitAfter(s, from, m) ==
    IF ~m.ok THEN <<Slice(s, from, Len(s))>>
    ELSE <<Slice(s, from, m.start - 1)>> \o SplitOnSpaceRuns(s, m.end)

\* words.join(' ')
RECURSIVE JoinWithSpace(_, _)
JoinWithSpace(words, i) ==
    IF i > Len(words) THEN <<>>
    ELSE (IF i > 1 THEN <<" ">> ELSE <<>>) \o words[i] \o JoinWithSpace(words, i + 1)

\* word.charAt(0).toUpperCase() + word.slice(1).toLowerCase()
Capitalize(word) ==
    IF word = <<>> THEN <<>>
    ELSE <<UpperChar(word[1])>> \o ToLowerCase(Slice(word, 2, Len(word)))

CapitalizeAll(words) == [i \in 1..Len(words) |-> Capitalize(words[i])]

TitleCase(s) == JoinWithSpace(CapitalizeAll(SplitOnSpaceRuns(s, 1)), 1)

NameNextJs == <<"N","e","x","t",".","j","s">>
NameTailwind == <<"T","a","i","l","w","i","n","d"," ","C","S","S">>
NameFirebase == <<"F","i","r","e","b","a","s","e">>
NameJavaScript == <<"J","a","v","a","S","c","r","i","p","t">>

\* /next\.?js/i, /tailwind/i, /firebase/i, /^react$/i, /typescript|ts$/i,
\* /javascript|js$/i
ReNextJs == Regex(<< Lit(<<"n","e","x","t">>) \o <<Opt(Ch("."))>> \o Lit(<<"j","s">>) >>, TRUE)
ReTailwind == Regex(<< Lit(<<"t","a","i","l","w","i","n","d">>) >>, TRUE)
ReFirebase == Regex(<< Lit(<<"f","i","r","e","b","a","s","e">>) >>, TRUE)
ReReactOnly == Regex(<< <<Bol>> \o Lit(<<"r","e","a","c","t">>) \o <<Eol>> >>, TRUE)
ReTypeScriptOrTs == Regex(<< Lit(<<"t","y","p","e","s","c","r","i","p","t">>), Lit(<<"t","s">>) \o <<Eol>> >>, TRUE)
ReJavaScriptOrJs == Regex(<< Lit(<<"j","a","v","a","s","c","r","i","p","t">>), Lit(<<"j","s">>) \o <<Eol>> >>, TRUE)

\* the chain of normalisations of one name
NormalizeTechName(techName) ==
    IF Test(ReNextJs, techName) THEN NameNextJs
    ELSE IF Test(ReTailwind, techName) THEN NameTailwind
    ELSE IF Test(ReFirebase, techName) THEN NameFirebase
    ELSE IF Test(ReReactOnly, techName) THEN NameReact
    ELSE IF Test(ReTypeScriptOrTs, techName) THEN NameTypeScript
    ELSE IF Test(ReJavaScriptOrJs, techName)
            /\ ~Includes(ToLowerCase(techName), <<"n","e","x","t">>)
         THEN NameJavaScript
    ELSE TitleCase(techName)

\* techStack.some(t => t.toLowerCase() === name.toLowerCase())
HasIgnoringCase(stack, name) ==
    \E i \in 1..Len(stack) : ToLowerCase(stack[i]) = ToLowerCase(name)

\* if (!exists && techName.length > 0) techStack.push(techName)
PushNew(stack, techName) ==
    IF ~HasIgnoringCase(stack, techName) /\ Len(techName) > 0
    THEN Append(stack, techName)
    ELSE stack

\* the body of items.forEach(item => ...)
AddItem(stack, normalized) ==
    IF normalized # <<>> THEN PushNew(stack, NormalizeTechName(normalized)) ELSE stack

\* TRUE; the list built so far is computed at this step of a loop
Computed(stack) == Len(stack) >= 0

\* items.forEach(item => ...)
RECURSIVE AddItems(_, _, _)
AddItems(stack, items, i) ==
    IF Computed(stack) /\ i > Len(items) THEN stack
    ELSE AddItems(AddItem(stack, Trim(items[i])), items, i + 1)

\* the body of while ((match = pattern.exec(section)) !== null)
AddMatch(stack, section, match) ==
    IF ~isAllowedCategory(LabelOf(Group(section, match, 1))) THEN stack
    ELSE AddItems(stack, ItemsOf(Trim(Group(section, match, 2))), 1)

RECURSIVE AddMatches(_, _, _, _)
AddMatches(stack, section, matches, i) ==
    IF Computed(stack) /\ i > Len(matches) THEN stack
    ELSE AddMatches(AddMatch(stack, section, matches[i]), section, matches, i + 1)

\* for (const pattern of patterns)
RECURSIVE AddPatterns(_, _, _)
AddPatterns(stack, section, p) ==
    IF Computed(stack) /\ p > Len(patterns) THEN stack
    ELSE AddPatterns(AddMatches(stack, section, ExecAll(patterns[p], section, 1), 1),
                     section, p + 1)

\* the names probed in the whole section when 1 or 2 were found
commonTechs ==
    << [patterns |-> <<ReNextJs, Regex(<<Lit(<<"n","e","x","t","j","s">>)>>, TRUE)>>, name |-> NameNextJs],
       [patterns |-> <<ReTailwind, Regex(<<Lit(<<"t","a","i","l","w","i","n","d","c","s","s">>)>>, TRUE)>>, name |-> NameTailwind],
       [patterns |-> <<ReFirebase>>, name |-> NameFirebase],
       [patterns |-> <<Regex(<<Lit(<<"r","e","a","c","t">>)>>, TRUE)>>, name |-> NameReact],
       [patterns |-> <<Regex(<<Lit(<<"t","y","p","e","s","c","r","i","p","t">>)>>, TRUE),
                       Regex(<<Lit(<<"t","s">>) \o <<WordBoundary>>>>, TRUE)>>,
        name |-> NameTypeScript],
       [patterns |-> <<Regex(<<Lit(<<"j","a","v","a","s","c","r","i","p","t">>)>>, TRUE),
                       Regex(<<Lit(<<"j","s">>) \o <<WordBoundary>>>>, TRUE)>>,
        name |-> NameJavaScript] >>

\* the body of commonTechs.forEach(({ patterns, name }) => ...)
AddCommonTech(stack, section, tech) ==
    IF ~HasIgnoringCase(stack, tech.name)
       /\ \E j \in 1..Len(tech.patterns) : Test(tech.patterns[j], section)
    THEN Append(stack, tech.name)
    ELSE stack

RECURSIVE AddCommonTechs(_, _, _)
AddCommonTechs(stack, section, c) ==
    IF Computed(stack) /\ c > Len(commonTechs) THEN stack
    ELSE AddCommonTechs(AddCommonTech(stack, section, commonTechs[c]), section, c + 1)

\* techStack.filter((tech, index, self) => self.findIndex(...) === index)
DedupeIgnoringCase(stack) ==
    SelectIdx(stack,
              {i \in 1..Len(stack) :
                  \A j \in 1..(i - 1) : ToLowerCase(stack[j]) # ToLowerCase(stack[i])},
              1)

\* the probe made whenever fewer than three names were found
WithCommonTechsBelowThree(stack, section) ==
    IF Len(stack) < 3 THEN AddCommonTechs(stack, section, 1) ELSE stack

\* if (techStack.length > 0 && techStack.length < 3) { ... }
WithCommonTechs(stack, section) ==
    IF Len(stack) > 0 /\ Len(stack) < 3 THEN AddCommonTechs(stack, section, 1) ELSE stack

\* from const section = sectionMatch[0] on
ParseSection(section) ==
    DedupeIgnoringCase(WithCommonTechs(AddPatterns(<<>>, section, 1), section))

\* from if (!sectionMatch) on
ParseMatchedSection(content, first) ==
    IF first.ok THEN ParseSection(Matched(content, first))
    ELSE LET second == Exec(OtherTechSection, content, 1)
         IN  IF ~second.ok THEN <<>> ELSE ParseSection(Matched(content, second))

parseCategorizedTechStackFromReadme(content) ==
    IF content = <<>> THEN <<>>
    ELSE ParseMatchedSection(content, Exec(TechStackSection, content, 1))

(***************************************************************************)
(* README texts given to the parser: a heading line and up to MaxLines     *)
(* of the further lines, joined by "\n".                                   *)
(***************************************************************************)
MaxLines == 2

\* "### Tech Stack", "## 🛠️ Tech Stack", "## Built With", "# Portfolio"
HeadingChoices ==
    { <<"#","#","#"," ","T","e","c","h"," ","S","t","a","c","k">>,
      <<"#","#"," ">> \o <<"&#xD83D;", "&#xDEE0;", "&#xFE0F;">> \o <<" ","T","e","c","h"," ","S","t","a","c","k">>,
      <<"#","#"," ","B","u","i","l","t"," ","W","i","t","h">>,
      <<"#"," ","P","o","r","t","f","o","l","i","o">> }

\* the lines a README is assembled from, in the order they appear in it
LineChoices ==
    << \* "* **Frontend:** React, TailwindCSS (v3)"
       <<"*"," ","*","*","F","r","o","n","t","e","n","d",":","*","*"," ","R","e","a","c","t",","," ","T","a","i","l","w","i","n","d","C","S","S"," ","(","v","3",")">>,
       \* "* **Backend:** Node.js"
       <<"*"," ","*","*","B","a","c","k","e","n","d",":","*","*"," ","N","o","d","e",".","j","s">>,
       \* "- **Frontend:** Next.js | TypeScript"
       <<"-"," ","*","*","F","r","o","n","t","e","n","d",":","*","*"," ","N","e","x","t",".","j","s"," ","|"," ","T","y","p","e","S","c","r","i","p","t">>,
       \* "- Backend: express, and more"
       <<"-"," ","B","a","c","k","e","n","d",":"," ","e","x","p","r","e","s","s",","," ","a","n","d"," ","m","o","r","e">>,
       \* "**Framework:** vue js"
       <<"*","*","F","r","a","m","e","w","o","r","k",":","*","*"," ","v","u","e"," ","j","s">>,
       \* "* **Tools:** Docker"
       <<"*"," ","*","*","T","o","o","l","s",":","*","*"," ","D","o","c","k","e","r">>,
       \* "* **Database:** Firebase"
       <<"*"," ","*","*","D","a","t","a","b","a","s","e",":","*","*"," ","F","i","r","e","b","a","s","e">>,
       \* "Built with React and ts"
       <<"B","u","i","l","t"," ","w","i","t","h"," ","R","e","a","c","t"," ","a","n","d"," ","t","s">>,
       \* "## License"
       <<"#","#"," ","L","i","c","e","n","s","e">> >>

\* the lines numbered by sel, in increasing order of their number
RECURSIVE LinesOf(_, _)
LinesOf(sel, i) ==
    IF i > Len(LineChoices) THEN <<>>
    ELSE (IF i \in sel THEN <<LineChoices[i]>> ELSE <<>>) \o LinesOf(sel, i + 1)

RECURSIVE JoinLines(_, _)
JoinLines(lines, i) ==
    IF i > Len(lines) THEN <<>>
    ELSE <<"\n">> \o lines[i] \o JoinLines(lines, i + 1)

ReadmeOf(heading, lines) == heading \o JoinLines(lines, 1)

InitReadme ==
    /\ \E heading \in HeadingChoices :
          \E sel \in {x \in SUBSET (1..Len(LineChoices)) : Cardinality(x) <= MaxLines} :
              readme = ReadmeOf(heading, LinesOf(sel, 1))
    /\ readmeTechs = <<>>
    /\ repoLangs = None
    /\ readmeTechStack = <<>>
    /\ rpc = "ready"
    /\ IdleFilter
    /\ IdleTech
    /\ IdleLater

\* one call parseCategorizedTechStackFromReadme(readme)
ParseCategorized ==
    /\ rpc = "ready"
    /\ readmeTechs' = parseCategorizedTechStackFromReadme(readme)
    /\ rpc' = "done"
    /\ UNCHANGED <<readme, repoLangs, readmeTechStack, filterVars, techVars, laterVars>>

\* languagesMap.get(repo.name): none (no map, or no entry for the repository),
\* {}, and maps of two and of five languages
LangsFive ==
    << Entry(<<"C","S","S">>, 300), Entry(<<"T","y","p","e","S","c","r","i","p","t">>, 9000), Entry(<<"S","h","e","l","l">>, 20),
       Entry(<<"H","T","M","L">>, 300), Entry(<<"J","a","v","a","S","c","r","i","p","t">>, 700) >>
MergeLangsChoices == { None, Some(<<>>), Some(LangsSmall), Some(LangsFive) }

FallbackLanguages == 4

\* Object.entries(repoLangs).sort(([, a], [, b]) => b - a).slice(0, 4)
\*     .map(([lang]) => lang)
TopLanguageNames(sorted) ==
    [i \in 1..(IF Len(sorted) < FallbackLanguages THEN Len(sorted) ELSE FallbackLanguages) |->
        sorted[i].name]

\* the readmeTechStack of one repository in reposWithDescriptions
MergedTechStack(fromReadme, langs) ==
    IF Len(fromReadme) = 0 /\ langs.some
    THEN TopLanguageNames(SortByBytes(langs.v))
    ELSE fromReadme

\* useGitHub merging the README data of the repository into it
MergeReadmeData ==
    /\ rpc = "done"
    /\ \E langs \in MergeLangsChoices :
          /\ repoLangs' = langs
          /\ readmeTechStack' = MergedTechStack(readmeTechs, langs)
    /\ rpc' = "merged"
    /\ UNCHANGED <<readme, readmeTechs, filterVars, techVars, laterVars>>

NextReadme == ParseCategorized \/ MergeReadmeData

SpecReadme == InitReadme /\ [][NextReadme]_vars

(***************************************************************************)
(* Properties of parseCategorizedTechStackFromReadme.                      *)
(***************************************************************************)
\* "### Tech Stack\n* **Frontend:** React, TailwindCSS (v3)\n* **Backend:** Node.js"
ExampleReadme ==
    <<"#","#","#"," ","T","e","c","h"," ","S","t","a","c","k","\n","*"," ","*","*","F","r","o","n","t","e","n","d",":","*","*"," ","R","e","a","c","t",","," ","T","a","i","l","w","i","n","d","C","S","S"," ","(","v","3",")","\n","*"," ","*","*","B","a","c","k","e","n","d",":","*","*"," ","N","o","d","e",".","j","s">>

\* C10: for the README "### Tech Stack\n* **Frontend:** React, TailwindCSS
\* (v3)\n* **Backend:** Node.js" the parser returns exactly the three names
\* "React", "Tailwind CSS", "Node.js", in that order.
C10_ExampleYieldsReactTailwindNode ==
    (rpc = "done" /\ readme = ExampleReadme)
        => readmeTechs = << <<"R","e","a","c","t">>, <<"T","a","i","l","w","i","n","d"," ","C","S","S">>, <<"N","o","d","e",".","j","s">> >>

\* The example README has been parsed.
C10_ExampleParsed == rpc = "done" /\ readme = ExampleReadme

(***************************************************************************)
(* Properties of the probe for common technologies.                        *)
(***************************************************************************)
\* the section of the README the parser locates, <<>> when it locates none
SectionOf(content, first, second) ==
    IF first.ok THEN Matched(content, first)
    ELSE IF second.ok THEN Matched(content, second)
    ELSE <<>>

LocatedSection ==
    SectionOf(readme, Exec(TechStackSection, readme, 1), Exec(OtherTechSection, readme, 1))

\* whether the two letters stand in the text as the end of a word
EndsWordWith(text, letters) ==
    \E p \in 1..(Len(text) - 1) :
        /\ text[p] = letters[1]
        /\ text[p + 1] = letters[2]
        /\ (p + 2 > Len(text) \/ text[p + 2] \notin WordChars)

\* the six probed names in their fixed order, each with whether the
\* lower-cased text mentions it
ProbedIn(text) ==
    << [name |-> <<"N","e","x","t",".","j","s">>, hit |-> Includes(text, <<"n","e","x","t",".","j","s">>) \/ Includes(text, <<"n","e","x","t","j","s">>)],
       [name |-> <<"T","a","i","l","w","i","n","d"," ","C","S","S">>, hit |-> Includes(text, <<"t","a","i","l","w","i","n","d">>)],
       [name |-> <<"F","i","r","e","b","a","s","e">>, hit |-> Includes(text, <<"f","i","r","e","b","a","s","e">>)],
       [name |-> <<"R","e","a","c","t">>, hit |-> Includes(text, <<"r","e","a","c","t">>)],
       [name |-> <<"T","y","p","e","S","c","r","i","p","t">>, hit |-> Includes(text, <<"t","y","p","e","s","c","r","i","p","t">>) \/ EndsWordWith(text, <<"t","s">>)],
       [name |-> <<"J","a","v","a","S","c","r","i","p","t">>, hit |-> Includes(text, <<"j","a","v","a","s","c","r","i","p","t">>) \/ EndsWordWith(text, <<"j","s">>)] >>

\* the probed names the text mentions that are not among found, ignoring case
MissingOf(found, probed) ==
    SelectIdx([i \in 1..Len(probed) |-> probed[i].name],
              {i \in 1..Len(probed) :
                  /\ probed[i].hit
                  /\ \A j \in 1..Len(found) :
                        ToLowerCase(found[j]) # ToLowerCase(probed[i].name)},
              1)

\* the names the bullet-line patterns yield in the section
BulletNames(section) == AddPatterns(<<>>, section, 1)

\* the probed names the section mentions that are not among found
MissingCommon(section, found) == MissingOf(found, ProbedIn(ToLowerCase(section)))

\* the result is found, followed by the missing names when the number found
\* is one at which the probe is made
ProbeRule(found, missing, probing) ==
    readmeTechs = (IF Len(found) \in probing THEN found \o missing ELSE found)

ProbeRuleOf(section, found, probing) ==
    section # <<>> => ProbeRule(found, MissingCommon(section, found), probing)

ProbeRuleIn(section, probing) == ProbeRuleOf(section, BulletNames(section), probing)

\* what the spec states: the probe is made whenever fewer than three names
\* were found, none included
C11_ProbeBelowThree == rpc = "done" => ProbeRuleIn(LocatedSection, {0, 1, 2})

\* C11: in a located section where the bullet-line patterns yield one or two
\* names, the result is those names followed by every probed name the
\* section mentions that is not among them ignoring case, in the order
\* Next.js, Tailwind CSS, Firebase, React, TypeScript, JavaScript; where they
\* yield none, or three or more, the result is what they yield
C11_ProbeWhenOneOrTwo == rpc = "done" => ProbeRuleIn(LocatedSection, {1, 2})

ProbeCase(found, missing, sizes) ==
    Len(found) \in sizes /\ missing # <<>> /\ ProbeRule(found, missing, {1, 2})

ProbeCaseIn(section, found, sizes) ==
    section # <<>> /\ ProbeCase(found, MissingCommon(section, found), sizes)

\* one or two names found and a further one appended
C11_Witness ==
    rpc = "done" /\ ProbeCaseIn(LocatedSection, BulletNames(LocatedSection), {1, 2})

(***************************************************************************)
(* Properties of readmeTechStack after the merge.                          *)
(***************************************************************************)
\* the letters and digits of s, lower-cased
AlnumKey(s) ==
    LET keep == {i \in 1..Len(s) : s[i] \in WordChars \ {"_"}}
    IN  [k \in 1..Cardinality(keep) |->
            LowerChar(s[CHOOSE i \in keep : Cardinality({j \in keep : j <= i}) = k])]

\* the first and the last position of the line of text that holds position p
LineStartAt(text, p) ==
    LET breaks == {q \in 1..(p - 1) : text[q] = "\n"}
    IN  IF breaks = {} THEN 1 ELSE (CHOOSE q \in breaks : \A r \in breaks : r <= q) + 1

LineEndAt(text, p) ==
    LET breaks == {q \in (p + 1)..Len(text) : text[q] = "\n"}
    IN  IF breaks = {} THEN Len(text) ELSE (CHOOSE q \in breaks : \A r \in breaks : q <= r) - 1

CategoryKeys == { <<"f","r","o","n","t","e","n","d">>, <<"b","a","c","k","e","n","d">>, <<"f","r","a","m","e","w","o","r","k">> }

\* whether the line has a label (the text before a colon) that matches one
\* of the three categories and, after that colon, the name
LineLists(labelKey, valuesKey, nameKey) ==
    /\ \E cat \in CategoryKeys : Includes(labelKey, cat)
    /\ Includes(valuesKey, nameKey)

\* whether the README lists the name under a label matching frontend, backend
\* or framework
ListedUnderCategory(text, name) ==
    \E c \in {p \in 1..Len(text) : text[p] = ":"} :
        LineLists(AlnumKey(Slice(text, LineStartAt(text, c), c - 1)),
                  AlnumKey(Slice(text, c + 1, LineEndAt(text, c))),
                  AlnumKey(name))

\* C12: every name of the repository's readmeTechStack after the merge is
\* listed in its README under a label matching frontend, backend or framework
C12_OnlyListedUnderCategory ==
    rpc = "merged" =>
        \A i \in 1..Len(readmeTechStack) : ListedUnderCategory(readme, readmeTechStack[i])

\* the README lists Firebase under Database only, and the merged list has it
C12_FirebaseFromDatabase ==
    /\ rpc = "merged"
    /\ Includes(readme, <<"*","*","D","a","t","a","b","a","s","e",":","*","*"," ","F","i","r","e","b","a","s","e">>)
    /\ ~ListedUnderCategory(readme, <<"F","i","r","e","b","a","s","e">>)
    /\ \E i \in 1..Len(readmeTechStack) : readmeTechStack[i] = <<"F","i","r","e","b","a","s","e">>

\* the README names no technology under any label, and the merged list is
\* the four largest languages of the repository
C12_LanguagesInPlace ==
    /\ rpc = "merged"
    /\ readmeTechs = <<>>
    /\ repoLangs = Some(LangsFive)
    /\ readmeTechStack = << <<"T","y","p","e","S","c","r","i","p","t">>, <<"J","a","v","a","S","c","r","i","p","t">>, <<"C","S","S">>, <<"H","T","M","L">> >>

(***************************************************************************)
(* services/github: extractDescriptionFromReadme.                          *)
(***************************************************************************)
ScanLines == 5
MinLineLength == 10
EnoughLength == 150
EnoughLines == 2
MaxDescription == 120
CutAfter == 80
MinDescription == 20

\* the character ` (a name in its place, as for the characters outside ASCII)
BackTick == "&grave;"

\* s.startsWith(p)
StartsWith(s, p) == StartsWithAt(s, p, 1)

\* s.lastIndexOf(c) for one character, counted from 0; -1 when absent
LastIndexOf(s, c) ==
    LET at == {p \in 1..Len(s) : s[p] = c}
    IN  IF at = {} THEN -1 ELSE (CHOOSE p \in at : \A q \in at : q <= p) - 1

\* the k-th of the positions, counted from 1
NthOf(positions, k) == CHOOSE p \in positions : Cardinality({q \in positions : q <= p}) = k

\* the pieces of s between the line breaks at the positions
PiecesBetween(s, breaks, n) ==
    [k \in 1..(n + 1) |->
        Slice(s, IF k = 1 THEN 1 ELSE NthOf(breaks, k - 1) + 1,
                 IF k = n + 1 THEN Len(s) ELSE NthOf(breaks, k) - 1)]

PiecesAt(s, breaks) == PiecesBetween(s, breaks, Cardinality(breaks))

\* content.split('\n')
SplitLines(s) == PiecesAt(s, {p \in 1..Len(s) : s[p] = "\n"})

\* content.split('\n').filter((line) => line.trim())
NonBlankLines(lines) == SelectIdx(lines, {i \in 1..Len(lines) : Trim(lines[i]) # <<>>}, 1)

\* the index of the first line that the while loop does not skip
StartIndex(lines) ==
    LET kept == {i \in 1..Len(lines) : ~StartsWith(lines[i], <<"#">>)}
    IN  IF kept = {} THEN Len(lines) + 1 ELSE CHOOSE i \in kept : \A j \in kept : i <= j

\* /\[([^\]]+)\]\([^\)]+\)/g, /\*\*([^*]+)\*\*/g, /\*([^*]+)\*/g, /`([^`]+)`/g
MarkdownLink ==
    Regex(<< <<Ch("["), Open(1), Plus(NotCls({"]"})), Close(1), Ch("]"), Ch("("),
               Plus(NotCls({")"})), Ch(")")>> >>, FALSE)
MarkdownBold ==
    Regex(<< Lit(<<"*","*">>) \o <<Open(1), Plus(NotCls({"*"})), Close(1)>> \o Lit(<<"*","*">>) >>, FALSE)
MarkdownItalic ==
    Regex(<< <<Ch("*"), Open(1), Plus(NotCls({"*"})), Close(1), Ch("*")>> >>, FALSE)
MarkdownCode ==
    Regex(<< <<Ch(BackTick), Open(1), Plus(NotCls({BackTick})), Close(1), Ch(BackTick)>> >>, FALSE)

\* s.replace(re, '$1') for a g-flagged expression
RECURSIVE ReplaceByGroupFrom(_, _, _)
RECURSIVE ReplaceByGroupAfter(_, _, _, _)
ReplaceByGroupFrom(re, s, from) == ReplaceByGroupAfter(re, s, from, Exec(re, s, from))
ReplaceByGroupAfter(re, s, from, m) ==
    IF ~m.ok THEN Slice(s, from, Len(s))
    ELSE Slice(s, from, m.start - 1) \o Group(s, m, 1) \o ReplaceByGroupFrom(re, s, m.end)

ReplaceByGroup(re, s) == IF s = <<>> THEN s ELSE ReplaceByGroupFrom(re, s, 1)

\* the test of the if in the loop, on the trimmed line
IsTextLine(line) ==
    /\ line # <<>>
    /\ ~StartsWith(line, <<"#">>)
    /\ ~StartsWith(line, <<"!","[">>)
    /\ ~StartsWith(line, <<"[">>)
    /\ ~StartsWith(line, <<BackTick, BackTick, BackTick>>)
    /\ ~StartsWith(line, <<"-","-","-">>)
    /\ ~StartsWith(line, <<"|">>)

\* const cleanLine = line.replace(...).replace(...).replace(...).replace(...).trim()
CleanLine(line) ==
    Trim(ReplaceByGroup(MarkdownCode,
            ReplaceByGroup(MarkdownItalic,
                ReplaceByGroup(MarkdownBold,
                    ReplaceByGroup(MarkdownLink, line)))))

\* descriptionLines.join(' ').length > 150 || descriptionLines.length >= 2
IsEnough(descriptionLines) ==
    Len(JoinWithSpace(descriptionLines, 1)) > EnoughLength \/ Len(descriptionLines) >= EnoughLines

\* the for loop from line i on
RECURSIVE CollectLines(_, _, _, _)
RECURSIVE CollectClean(_, _, _, _, _)
RECURSIVE CollectPushed(_, _, _, _)
CollectLines(lines, i, last, descriptionLines) ==
    IF Computed(descriptionLines) /\ i > last THEN descriptionLines
    ELSE IF ~IsTextLine(Trim(lines[i])) THEN CollectLines(lines, i + 1, last, descriptionLines)
    ELSE CollectClean(lines, i, last, descriptionLines, CleanLine(Trim(lines[i])))

CollectClean(lines, i, last, descriptionLines, cleanLine) ==
    IF Len(cleanLine) > MinLineLength
    THEN CollectPushed(lines, i, last, Append(descriptionLines, cleanLine))
    ELSE CollectLines(lines, i + 1, last, descriptionLines)

CollectPushed(lines, i, last, descriptionLines) ==
    IF IsEnough(descriptionLines) THEN descriptionLines
    ELSE CollectLines(lines, i + 1, last, descriptionLines)

\* the lines of the description, from the lines left after the filter
DescriptionLinesFrom(lines, startIndex) ==
    CollectLines(lines, startIndex,
                 IF startIndex + ScanLines - 1 < Len(lines) THEN startIndex + ScanLines - 1
                 ELSE Len(lines),
                 <<>>)

\* the three ways to end the first 120 characters, trimmed
CutDescription(text, lastPeriod, lastSpace) ==
    IF lastPeriod > CutAfter THEN Slice(text, 1, lastPeriod + 1)
    ELSE IF lastSpace > CutAfter THEN Slice(text, 1, lastSpace) \o <<".",".",".">>
    ELSE text \o <<".",".",".">>

CutTrimmed(text) ==
    CutDescription(text, LastIndexOf(text, "."), LastIndexOf(text, " "))

\* if (description.length > 120) { ... }
Truncated(text) ==
    IF Len(text) > MaxDescription
    THEN CutTrimmed(Trim(Slice(text, 1, MaxDescription)))
    ELSE text

\* a description of 20 characters kept
MeaningfulOrNullFrom20(text) ==
    IF Len(text) >= MinDescription THEN Some(text) ELSE None

\* return description.length > 20 ? description : null
MeaningfulOrNull(text) ==
    IF Len(text) > MinDescription THEN Some(text) ELSE None

\* the description before it is cut: descriptionLines.join(' ').trim()
AssembledFrom(lines) == Trim(JoinWithSpace(DescriptionLinesFrom(lines, StartIndex(lines)), 1))

AssembledDescription(content) == AssembledFrom(NonBlankLines(SplitLines(content)))

extractDescriptionFromReadme(content) ==
    IF content = <<>> THEN None
    ELSE MeaningfulOrNull(Truncated(AssembledDescription(content)))
(***************************************************************************)
(* README texts given to extractDescriptionFromReadme: an optional title,  *)
(* a first line of one of the lengths in one of the styles, and an         *)
(* optional second line.                                                   *)
(***************************************************************************)
MaxLineLength == 160

LineLengths == {8, 19, 20, 21, 100, 120, 121, 151, MaxLineLength}

\* a style puts a space at every space-th and a period at every period-th
\* character of a line of letters (0: none)
LineStyles ==
    { [space |-> 0, period |-> 0], [space |-> 7, period |-> 0],
      [space |-> 7, period |-> 50], [space |-> 0, period |-> 60] }

BodyLine(n, style) ==
    [i \in 1..n |->
        CASE style.period > 0 /\ i % style.period = 0 -> "."
          [] style.space > 0 /\ i % style.space = 0 -> " "
          [] OTHER -> "a"]

TitleChoices == { <<>>, <<"#"," ","D","e","m","o","\n","\n">> }

SecondLineChoices ==
    { <<>>, <<"\n","t","i","n","y">>, <<"\n","!","[","s","h","o","t","]","(",".","/","a",".","p","n","g",")">>,
      <<"\n","*","*","F","a","s","t","*","*"," ","a","n","d"," ","&grave;","s","m","a","l","l","&grave;"," ","[","d","o","c","s","]","(","h","t","t","p",":","/","/","x",".","y",")"," ","t","o","o","l">>,
      <<"\n","\n","#","#"," ","I","n","s","t","a","l","l">> }

InitDescription ==
    /\ \E title \in TitleChoices, n \in LineLengths, style \in LineStyles,
          second \in SecondLineChoices :
              descContent = title \o BodyLine(n, style) \o second
    /\ description = None
    /\ dpc = "ready"
    /\ IdleFilter
    /\ IdleTech
    /\ IdleReadme
    /\ IdleImage
    /\ IdleBatch
    /\ IdleHook
    /\ IdleLast

\* one call extractDescriptionFromReadme(descContent)
ExtractDescription ==
    /\ dpc = "ready"
    /\ description' = extractDescriptionFromReadme(descContent)
    /\ dpc' = "done"
    /\ UNCHANGED <<descContent, filterVars, techVars, readmeVars, imageVars,
                   batchVars, hookVars, lastVars>>

NextDescription == ExtractDescription

SpecDescription == InitDescription /\ [][NextDescription]_vars

(***************************************************************************)
(* Properties of extractDescriptionFromReadme.                             *)
(***************************************************************************)
\* the positions where a line of the text starts that is neither empty nor a
\* heading
ContentLineStarts(text) ==
    {p \in 1..Len(text) : (p = 1 \/ text[p - 1] = "\n") /\ text[p] \notin {"\n", "#"}}

FirstOf(positions) == CHOOSE p \in positions : \A q \in positions : p <= q

\* the length of the first content line after the title, 0 when there is none
FirstContentLength(text, starts) ==
    IF starts = {} THEN 0 ELSE LineEndAt(text, FirstOf(starts)) - FirstOf(starts) + 1

EndsWithEllipsisOrPeriod(text) ==
    text # <<>> /\ text[Len(text)] = "."

\* what the spec states for a returned description
ShortEnough(d) == d.some => Len(d.v) <= 120

CutShort(d) == d.some /\ Len(d.v) <= 120 /\ EndsWithEllipsisOrPeriod(d.v)

\* C13: every returned description has at most 120 characters, and for a
\* README whose first content line after the title has more than 150
\* characters the description is returned, has at most 120 characters and
\* ends with "..." or with a period
C13_AtMost120 ==
    dpc = "done" =>
        /\ ShortEnough(description)
        /\ FirstContentLength(descContent, ContentLineStarts(descContent)) > 150
              => CutShort(description)

\* a first line of more than 150 letters without a space or a period: the
\* description is its first 120 characters and "..."
C13_Returned123 ==
    /\ dpc = "done"
    /\ FirstContentLength(descContent, ContentLineStarts(descContent)) > 150
    /\ description.some
    /\ Len(description.v) = 123
    /\ SubSeq(description.v, 121, 123) = <<".", ".", ".">>

\* the description is null when the assembled one has fewer characters than
\* least, and else the assembled one, cut when it is longer than 120
NullBelow(d, assembled, least) ==
    IF Len(assembled) < least THEN d = None
    ELSE /\ d.some
         /\ Len(assembled) <= 120 => d.v = assembled
         /\ Len(assembled) > 120 => Len(d.v) > 80 /\ SubSeq(d.v, 1, 81) = SubSeq(assembled, 1, 81)

\* what the spec states: null exactly below 20 characters
C14_NullExactlyBelow20 ==
    dpc = "done" => NullBelow(description, AssembledDescription(descContent), 20)

\* C14: the result is null exactly when the assembled description has at
\* most 20 characters; with 21 or more it is the description (cut when it has
\* more than 120)
C14_NullExactlyUpTo20 ==
    dpc = "done" => NullBelow(description, AssembledDescription(descContent), 21)

NullAt(d, assembled, length) == d = None /\ Len(assembled) = length

\* an assembled description of exactly 20 characters, and null returned
C14_Witness ==
    dpc = "done" /\ NullAt(description, AssembledDescription(descContent), 20)

ReturnedAt(d, assembled, length) == d = Some(assembled) /\ Len(assembled) = length

C14_WitnessReturned ==
    dpc = "done" /\ ReturnedAt(description, AssembledDescription(descContent), 21)

(***************************************************************************)
(* services/github: extractImageFromReadme.                                *)
(***************************************************************************)
SmallIconLength == 50

\* /!\[([^\]]*)\]\(([^\)]+)\)/g
imagePattern ==
    Regex(<< Lit(<<"!","[">>) \o <<Open(1), Star(NotCls({"]"})), Close(1)>> \o Lit(<<"]","(">>)
               \o <<Open(2), Plus(NotCls({")"})), Close(2), Ch(")")>> >>, FALSE)

skipPatterns ==
    << <<"b","a","d","g","e">>, <<"s","h","i","e","l","d","s",".","i","o">>, <<"i","m","g",".","s","h","i","e","l","d","s",".","i","o">>, <<"g","i","t","h","u","b",".","c","o","m">>, <<"g","i","t","h","u","b","u","s","e","r","c","o","n","t","e","n","t",".","c","o","m">> >>

\* skipPatterns.some((pattern) => imageUrl.includes(pattern) && imageUrl.includes('badge'))
IsBadge(imageUrl) ==
    \E i \in 1..Len(skipPatterns) :
        Includes(imageUrl, skipPatterns[i]) /\ Includes(imageUrl, <<"b","a","d","g","e">>)

\* imageUrl.includes('icon') && imageUrl.length < 50
IsSmallIcon(imageUrl) == Includes(imageUrl, <<"i","c","o","n">>) /\ Len(imageUrl) < SmallIconLength

\* the test of "Handle relative paths"
IsRelative(imageUrl) ==
    \/ StartsWith(imageUrl, <<".","/">>)
    \/ StartsWith(imageUrl, <<".",".","/">>)
    \/ /\ ~StartsWith(imageUrl, <<"h","t","t","p">>)
       /\ ~StartsWith(imageUrl, <<"/","/">>)
       /\ ~StartsWith(imageUrl, <<"d","a","t","a",":">>)

\* /^\.\//, /^\.\.\//
LeadingDotSlash == Regex(<< <<Bol>> \o Lit(<<".","/">>) >>, FALSE)
LeadingDotDotSlash == Regex(<< <<Bol>> \o Lit(<<".",".","/">>) >>, FALSE)

\* imageUrl.replace(/^\.\//, '').replace(/^\.\.\//, '')
CleanPath(imageUrl) ==
    ReplaceFirst(LeadingDotDotSlash, ReplaceFirst(LeadingDotSlash, imageUrl, <<>>), <<>>)

\* `https://raw.githubusercontent.com/${GITHUB_USERNAME}/${repoName}/${branch}/${cleanPath}`
RawUrl(username, repoName, cleanPath) ==
    <<"h","t","t","p","s",":","/","/","r","a","w",".","g","i","t","h","u","b","u","s","e","r","c","o","n","t","e","n","t",".","c","o","m","/">> \o username \o <<"/">> \o repoName
        \o <<"/","m","a","i","n","/">> \o cleanPath

Resolved(imageUrl, username, repoName) ==
    IF IsRelative(imageUrl) THEN RawUrl(username, repoName, CleanPath(imageUrl))
    ELSE imageUrl

ImageExtensions == << <<"j","p","g">>, <<"j","p","e","g">>, <<"p","n","g">>, <<"g","i","f">>, <<"w","e","b","p">>, <<"s","v","g">> >>

\* /\.(jpg|jpeg|png|gif|webp|svg)(\?.*)?$/i: each extension at the end, or
\* followed by a query up to the end
ImageExtension ==
    Regex([k \in 1..(2 * Len(ImageExtensions)) |->
              IF k % 2 = 1
              THEN Lit(<<".">> \o ImageExtensions[(k + 1) \div 2]) \o <<Eol>>
              ELSE Lit(<<".">> \o ImageExtensions[k \div 2] \o <<"?">>)
                       \o <<Star(NotCls({"\n", "\r"})), Eol>>],
          TRUE)

isValidImage(imageUrl) ==
    \/ Test(ImageExtension, imageUrl)
    \/ Includes(imageUrl, <<"r","a","w",".","g","i","t","h","u","b","u","s","e","r","c","o","n","t","e","n","t",".","c","o","m">>)
    \/ Includes(imageUrl, <<"g","i","t","h","u","b","u","s","e","r","c","o","n","t","e","n","t",".","c","o","m">>)
    \/ StartsWith(imageUrl, <<"d","a","t","a",":","i","m","a","g","e">>)

\* the body of the while loop for one match: the images list after it
PushValid(images, imageUrl) ==
    IF isValidImage(imageUrl) THEN Append(images, imageUrl) ELSE images

PushImage(images, imageUrl, username, repoName) ==
    IF imageUrl = <<>> \/ IsBadge(imageUrl) \/ IsSmallIcon(imageUrl) THEN images
    ELSE PushValid(images, Resolved(imageUrl, username, repoName))

\* while ((match = imagePattern.exec(content)) !== null) { ... }
RECURSIVE PushImages(_, _, _, _, _, _)
PushImages(images, content, matches, i, username, repoName) ==
    IF Computed(images) /\ i > Len(matches) THEN images
    ELSE PushImages(PushImage(images, Trim(Group(content, matches[i], 2)), username, repoName),
                    content, matches, i + 1, username, repoName)

\* the last of the valid images returned
LastImage(images) == IF Len(images) > 0 THEN Some(images[Len(images)]) ELSE None

\* return images.length > 0 ? images[0].url : null
FirstImage(images) == IF Len(images) > 0 THEN Some(images[1]) ELSE None

extractImageFromReadme(content, repoName, username) ==
    IF content = <<>> \/ username = <<>> THEN None
    ELSE FirstImage(PushImages(<<>>, content, ExecAll(imagePattern, content, 1), 1,
                               username, repoName))

(***************************************************************************)
(* README texts given to extractImageFromReadme: a title and up to         *)
(* MaxImages image references, in the order of ImageUrls or in the reverse *)
(* order.                                                                  *)
(***************************************************************************)
MaxImages == 2

ImageUrls ==
    << <<"h","t","t","p","s",":","/","/","i","m","g",".","s","h","i","e","l","d","s",".","i","o","/","b","a","d","g","e","/","l","i","c","e","n","s","e","-","M","I","T","-","g","r","e","e","n",".","s","v","g">>,
       <<".","/","s","c","r","e","e","n","s","h","o","t",".","p","n","g">>,
       <<"h","t","t","p","s",":","/","/","i","m","g",".","s","h","i","e","l","d","s",".","i","o","/","g","i","t","h","u","b","/","s","t","a","r","s","/","a","l","i","c","e","/","d","e","m","o",".","s","v","g">>,
       <<"h","t","t","p","s",":","/","/","e","x","a","m","p","l","e",".","c","o","m","/","p","a","g","e">>,
       <<"d","o","c","s","/","b","a","d","g","e","-","p","r","e","v","i","e","w",".","p","n","g">>,
       <<".",".","/","a","s","s","e","t","s","/","s","h","o","t",".","g","i","f">>,
       <<"i","m","a","g","e","s","/","i","c","o","n",".","p","n","g">>,
       <<"h","t","t","p","s",":","/","/","e","x","a","m","p","l","e",".","c","o","m","/","d","e","m","o",".","w","e","b","p","?","r","a","w","=","t","r","u","e">>,
       <<"h","t","t","p","s",":","/","/","g","i","t","h","u","b",".","c","o","m","/","a","l","i","c","e","/","d","e","m","o","/","w","o","r","k","f","l","o","w","s","/","c","i","/","b","a","d","g","e",".","s","v","g">>,
       <<" ","/","/","c","d","n",".","e","x","a","m","p","l","e",".","c","o","m","/","a",".","J","P","G"," ">>,
       <<"d","a","t","a",":","i","m","a","g","e","/","p","n","g",";","b","a","s","e","6","4",",","A","A","A","A">>,
       <<"h","t","t","p","s",":","/","/","u","s","e","r","-","i","m","a","g","e","s",".","g","i","t","h","u","b","u","s","e","r","c","o","n","t","e","n","t",".","c","o","m","/","1","/","s","h","o","t">> >>

\* the README with the references numbered by sel, from i on in the direction
RECURSIVE ImageLines(_, _, _)
ImageLines(sel, i, step) ==
    IF i < 1 \/ i > Len(ImageUrls) THEN <<>>
    ELSE (IF i \in sel THEN <<"\n","!","[","p","r","e","v","i","e","w","]","(">> \o ImageUrls[i] \o <<")">> ELSE <<>>)
             \o ImageLines(sel, i + step, step)

UsernameChoices == { <<>>, <<"a","l","i","c","e">> }

InitImage ==
    /\ \E sel \in {x \in SUBSET (1..Len(ImageUrls)) : Cardinality(x) <= MaxImages},
          reversed \in BOOLEAN :
              imgContent = <<"#"," ","D","e","m","o","\n">>
                  \o (IF reversed THEN ImageLines(sel, Len(ImageUrls), -1)
                      ELSE ImageLines(sel, 1, 1))
    /\ imgUser \in UsernameChoices
    /\ image = None
    /\ ipc = "ready"
    /\ IdleFilter
    /\ IdleTech
    /\ IdleReadme
    /\ IdleDescription
    /\ IdleBatch
    /\ IdleHook
    /\ IdleLast

\* one call extractImageFromReadme(imgContent, 'demo')
ExtractImage ==
    /\ ipc = "ready"
    /\ image' = extractImageFromReadme(imgContent, <<"d","e","m","o">>, imgUser)
    /\ ipc' = "done"
    /\ UNCHANGED <<imgContent, imgUser, filterVars, techVars, readmeVars, descVars,
                   batchVars, hookVars, lastVars>>

NextImage == ExtractImage

SpecImage == InitImage /\ [][NextImage]_vars

(***************************************************************************)
(* Properties of extractImageFromReadme.                                   *)
(***************************************************************************)
\* the positions of the "(" that open the URL of an image reference
UrlOpenings(text) ==
    {p \in 3..Len(text) : text[p] = "(" /\ text[p - 1] = "]"}

\* the URL opened at p: the text up to the next ")", without outer blanks
UrlAt(text, p) ==
    Trim(Slice(text, p + 1, FirstOf({q \in (p + 1)..Len(text) : text[q] = ")"}) - 1))

UrlsAt(text, openings) ==
    [k \in 1..Cardinality(openings) |-> UrlAt(text, NthOf(openings, k))]

\* the URLs of the image references of the text, in their order
UrlsOf(text) == UrlsAt(text, UrlOpenings(text))

BadgeDomains == { <<"s","h","i","e","l","d","s",".","i","o">>, <<"i","m","g",".","s","h","i","e","l","d","s",".","i","o">>, <<"g","i","t","h","u","b",".","c","o","m">>, <<"g","i","t","h","u","b","u","s","e","r","c","o","n","t","e","n","t",".","c","o","m">> }

\* a badge as the spec describes it: a badge-hosting domain together with
\* "badge"
BadgeByDomain(url) ==
    Includes(url, <<"b","a","d","g","e">>) /\ \E d \in BadgeDomains : Includes(url, d)

SmallIcon(url) == Includes(url, <<"i","c","o","n">>) /\ Len(url) < 50

RelativeUrl(url) ==
    ~(\E prefix \in { <<"h","t","t","p">>, <<"/","/">>, <<"d","a","t","a",":">> } : StartsWith(url, prefix))

\* what the spec states for the READMEs of one reference
SingleReference(urls, result) ==
    /\ Includes(urls[1], <<"s","h","i","e","l","d","s",".","i","o">>) => result = None
    /\ RelativeUrl(urls[1]) /\ ~BadgeByDomain(urls[1]) /\ ~SmallIcon(urls[1]) => result.some

\* C15: a README whose image references are all shields.io images yields
\* null, and a reference is skipped as a badge only when its URL has a
\* badge-hosting domain together with "badge" (so that a relative reference
\* without such a domain, not a small icon, is returned)
C15_ShieldsYieldNull ==
    ipc = "done" /\ imgUser # <<>> =>
        /\ (\A i \in 1..Len(UrlsOf(imgContent)) : Includes(UrlsOf(imgContent)[i], <<"s","h","i","e","l","d","s",".","i","o">>))
              => image = None
        /\ Len(UrlsOf(imgContent)) = 1 => SingleReference(UrlsOf(imgContent), image)

\* the only image of the README is a shields.io image, and it is returned
C15_ShieldReturned ==
    /\ ipc = "done"
    /\ UrlsOf(imgContent) = << <<"h","t","t","p","s",":","/","/","i","m","g",".","s","h","i","e","l","d","s",".","i","o","/","g","i","t","h","u","b","/","s","t","a","r","s","/","a","l","i","c","e","/","d","e","m","o",".","s","v","g">> >>
    /\ image = Some(<<"h","t","t","p","s",":","/","/","i","m","g",".","s","h","i","e","l","d","s",".","i","o","/","g","i","t","h","u","b","/","s","t","a","r","s","/","a","l","i","c","e","/","d","e","m","o",".","s","v","g">>)

\* the only image of the README is docs/badge-preview.png, and null is returned
C15_BadgeWithoutDomain ==
    /\ ipc = "done"
    /\ imgUser # <<>>
    /\ UrlsOf(imgContent) = << <<"d","o","c","s","/","b","a","d","g","e","-","p","r","e","v","i","e","w",".","p","n","g">> >>
    /\ image = None

\* a reference is skipped when its URL has "badge" in it or is a small icon
SkippedUrl(url) == url = <<>> \/ Includes(url, <<"b","a","d","g","e">>) \/ SmallIcon(url)

\* the text without the prefix, when it starts with it
WithoutPrefix(text, prefix) ==
    IF StartsWith(text, prefix) THEN Slice(text, Len(prefix) + 1, Len(text)) ELSE text

\* a relative URL resolved against the raw content of the main branch
ResolvedUrl(url, user, repo) ==
    IF ~RelativeUrl(url) THEN url
    ELSE <<"h","t","t","p","s",":","/","/","r","a","w",".","g","i","t","h","u","b","u","s","e","r","c","o","n","t","e","n","t",".","c","o","m","/">> \o user \o <<"/">> \o repo \o <<"/","m","a","i","n","/">>
             \o WithoutPrefix(WithoutPrefix(url, <<".","/">>), <<".",".","/">>)

\* whether the lower-cased URL has the extension at p, at its end or before "?"
ExtensionAt(lower, ext, p) ==
    /\ StartsWithAt(lower, <<".">> \o ext, p)
    /\ (p + Len(ext) = Len(lower) \/ (p + Len(ext) < Len(lower) /\ lower[p + Len(ext) + 1] = "?"))

HasImageExtension(lower) ==
    \E ext \in { <<"j","p","g">>, <<"j","p","e","g">>, <<"p","n","g">>, <<"g","i","f">>, <<"w","e","b","p">>, <<"s","v","g">> } :
        \E p \in 1..Len(lower) : ExtensionAt(lower, ext, p)

AcceptedUrl(url) ==
    \/ HasImageExtension(ToLowerCase(url))
    \/ Includes(url, <<"g","i","t","h","u","b","u","s","e","r","c","o","n","t","e","n","t",".","c","o","m">>)
    \/ StartsWith(url, <<"d","a","t","a",":","i","m","a","g","e">>)

\* the references that are not skipped and, once resolved, are accepted
AcceptedAmong(urls, user, repo) ==
    {i \in 1..Len(urls) : ~SkippedUrl(urls[i]) /\ AcceptedUrl(ResolvedUrl(urls[i], user, repo))}

FirstAccepted(urls, accepted, user, repo) ==
    IF accepted = {} THEN None ELSE Some(ResolvedUrl(urls[FirstOf(accepted)], user, repo))

FirstAcceptedOf(urls, user, repo) ==
    FirstAccepted(urls, AcceptedAmong(urls, user, repo), user, repo)

\* C16: the result is the first image reference, in the order of the README,
\* that is not skipped and is accepted, resolved when it is relative, and
\* null when there is none (or no user name is configured)
C16_FirstAccepted ==
    ipc = "done" =>
        image = (IF imgUser = <<>> THEN None
                 ELSE FirstAcceptedOf(UrlsOf(imgContent), imgUser, <<"d","e","m","o">>))

\* ./screenshot.png in repository demo of user alice, after a skipped badge
C16_Witness ==
    /\ ipc = "done"
    /\ imgUser = <<"a","l","i","c","e">>
    /\ UrlsOf(imgContent) =
          << <<"h","t","t","p","s",":","/","/","i","m","g",".","s","h","i","e","l","d","s",".","i","o","/","b","a","d","g","e","/","l","i","c","e","n","s","e","-","M","I","T","-","g","r","e","e","n",".","s","v","g">>, <<".","/","s","c","r","e","e","n","s","h","o","t",".","p","n","g">> >>
    /\ image = Some(<<"h","t","t","p","s",":","/","/","r","a","w",".","g","i","t","h","u","b","u","s","e","r","c","o","n","t","e","n","t",".","c","o","m","/","a","l","i","c","e","/","d","e","m","o","/","m","a","i","n","/","s","c","r","e","e","n","s","h","o","t",".","p","n","g">>)

\* two accepted references: the one that stands first in the README is returned
C16_WitnessOrder ==
    /\ ipc = "done"
    /\ UrlsOf(imgContent) = << <<".",".","/","a","s","s","e","t","s","/","s","h","o","t",".","g","i","f">>, <<".","/","s","c","r","e","e","n","s","h","o","t",".","p","n","g">> >>
    /\ image = Some(<<"h","t","t","p","s",":","/","/","r","a","w",".","g","i","t","h","u","b","u","s","e","r","c","o","n","t","e","n","t",".","c","o","m","/","a","l","i","c","e","/","d","e","m","o","/","m","a","i","n","/","a","s","s","e","t","s","/","s","h","o","t",".","g","i","f">>)

(***************************************************************************)
(* The batch loops: fetchAllRepoLanguages (services/github) asks for the   *)
(* languages of the active repositories, and the README enrichment fetcher *)
(* of useGitHub asks for the README data of the filtered repositories.     *)
(* Both issue their calls in slices with Promise.all and pause between     *)
(* slices.  Repositories are numbered 1..activeCount in list order.        *)
(***************************************************************************)
MaxBatchRepos == 6

LanguageBatchSize == 5
LanguagePause == 100
ReadmeBatchSize == 3
ReadmePause == 200

batchSize(kind) == IF kind = "languages" THEN LanguageBatchSize ELSE ReadmeBatchSize
pauseOf(kind) == IF kind = "languages" THEN LanguagePause ELSE ReadmePause

\* a settled promise: fulfilled with a value, or rejected
Fulfilled(v) == [rejected |-> FALSE, v |-> v]
Rejection == [rejected |-> TRUE, v |-> <<>>]

\* what the upstream does for one repository.  languages: "ok" (200 and a
\* body), "status" (non-success status), "network" (fetch rejects).
\* README: "raw" and "other" (200 and a text), and after a non-success
\* status of the raw request the JSON fallback: "json" (content present),
\* "jsonEmpty" (no content), "undecodable" (content that atob rejects),
\* "status" (non-success again: fetchAPI throws), "network" (fetch rejects,
\* at either request).
LanguageOutcomes == {"ok", "status", "network"}
RawOutcomes == {"raw", "other", "network"}
FallbackOutcomes == {"json", "jsonEmpty", "undecodable", "status", "network"}

SampleReadme == <<"#"," ","D","e","m","o","\n","\n","A"," ","s","m","a","l","l"," ","d","e","m","o"," ","a","p","p","l","i","c","a","t","i","o","n"," ","f","o","r"," ","t","e","s","t","i","n","g"," ","t","h","i","n","g","s",".","\n","\n","!","[","s","h","o","t","]","(","h","t","t","p","s",":","/","/","e","x","a","m","p","l","e",".","c","o","m","/","s","h","o","t",".","p","n","g",")","\n","\n","#","#"," ","T","e","c","h"," ","S","t","a","c","k","\n","-"," ","*","*","F","r","o","n","t","e","n","d",":","*","*"," ","R","e","a","c","t","\n">>
OtherReadme == <<"n","/","a">>
EmptyRepoData == [description |-> None, image |-> None, techStack |-> <<>>]

\* fetchRepoLanguages: the body on response.ok, {} otherwise and in the catch
fetchRepoLanguagesThrowing(outcome) ==
    CASE outcome = "ok" -> Fulfilled(LangsSmall)
      [] outcome = "status" -> Fulfilled(<<>>)
      [] OTHER -> Rejection
fetchRepoLanguages(outcome) ==
    CASE outcome = "ok" -> Fulfilled(LangsSmall)
      [] outcome = "status" -> Fulfilled(<<>>)
      [] OTHER -> Fulfilled(<<>>)

\* fetchRepoReadme: the text of the raw response, the decoded content of the
\* JSON fallback ('' without content), and '' in the catch
fetchRepoReadme(outcome) ==
    CASE outcome = "raw" -> SampleReadme
      [] outcome = "other" -> OtherReadme
      [] outcome = "json" -> SampleReadme
      [] outcome = "jsonEmpty" -> <<>>
      [] OTHER -> <<>>

RepoDataOf(text) ==
    [description |-> extractDescriptionFromReadme(text),
     image |-> extractImageFromReadme(text, <<"d","e","m","o">>, <<"a","l","i","c","e">>),
     techStack |-> parseCategorizedTechStackFromReadme(text)]

fetchRepoDescriptionRejecting(outcome) ==
    IF outcome \in {"undecodable", "status", "network"} THEN Rejection
    ELSE Fulfilled(RepoDataOf(fetchRepoReadme(outcome)))
fetchRepoDescription(outcome) == Fulfilled(RepoDataOf(fetchRepoReadme(outcome)))

\* the value of each call, by outcome
RepoDescriptions ==
    [raw |-> fetchRepoDescription("raw"), other |-> fetchRepoDescription("other"),
     json |-> fetchRepoDescription("json"),
     jsonEmpty |-> fetchRepoDescription("jsonEmpty"),
     undecodable |-> fetchRepoDescription("undecodable"),
     status |-> fetchRepoDescription("status"),
     network |-> fetchRepoDescription("network")]

CallResult(kind, outcome) ==
    IF kind = "languages" THEN fetchRepoLanguages(outcome) ELSE RepoDescriptions[outcome]

UpstreamOf(outcome) ==
    CASE outcome \in {"ok", "raw", "json"} -> "content"
      [] outcome = "other" -> "plain"
      [] outcome = "jsonEmpty" -> "empty"
      [] outcome = "undecodable" -> "unparseable"
      [] OTHER -> "failed"

\* batch = list.slice(i, i + batchSize)
BatchSliceRest(i, size, n) == {r \in 1..n : i < r}
BatchSlice(i, size, n) == {r \in 1..n : i < r /\ r <= i + size}

\* error: (userError || reposError || languagesError)
ErrorOf(userError, reposError, languagesError) ==
    IF userError.some THEN userError
    ELSE IF reposError.some THEN reposError ELSE languagesError

\* the hook's error while one loop runs, the profile and the repository list
\* having loaded: only the languages fetcher's rejection is read (the
\* enrichment useSWR call destructures data alone)
BatchError ==
    ErrorOf(None, None,
            IF batchKind = "languages" /\ bpc = "rejected"
            THEN Some(<<"e","r","r","o","r">>) ELSE None)

\* repos.filter((r) => !r.fork && !r.archived)
ActiveRepos(rs) == SelectSeq(rs, LAMBDA r : ~r.fork /\ ~r.archived)

InputRepo(i, fork, archived) ==
    [name |-> RepoName(i), fork |-> fork, archived |-> archived]

\* languageMap.set(key, val)
MapSet(lm, key, val) ==
    IF \E i \in 1..Len(lm) : lm[i].key = key
    THEN [i \in 1..Len(lm) |-> IF lm[i].key = key
                               THEN [key |-> key, val |-> val] ELSE lm[i]]
    ELSE Append(lm, [key |-> key, val |-> val])

RECURSIVE SetResults(_, _, _, _, _)
\* results.forEach(({ name, langs }) => languageMap.set(name, langs)) for the
\* results of the repositories from..to of the active ones
SetResults(lm, active, results, from, to) ==
    IF from > to THEN lm
    ELSE SetResults(MapSet(lm, active[from].name, results[from].v),
                    active, results, from + 1, to)

InitBatch ==
    /\ batchKind \in {"languages", "readme"}
    /\ activeCount \in 0..MaxBatchRepos
    /\ batchKind = "readme" => activeCount > 0
    /\ inputRepos = [i \in 1..activeCount |-> InputRepo(i, FALSE, FALSE)]
    /\ languageMap = <<>>
    /\ readmeMapSet = FALSE
    /\ batchStart = 0
    /\ inFlight = {}
    /\ jsonFallback = {}
    /\ batchResults = [r \in 1..activeCount |-> None]
    /\ stored = [r \in 1..activeCount |-> None]
    /\ upstream = [r \in 1..activeCount |-> "pending"]
    /\ paused = 0
    /\ bpc = IF batchKind = "languages" THEN "special" ELSE "loop"
    /\ IdleFilter
    /\ IdleTech
    /\ IdleReadme
    /\ IdleDescription
    /\ IdleImage
    /\ IdleHook
    /\ IdleLast

otherVars == <<filterVars, techVars, readmeVars, descVars, imageVars, hookVars,
               lastVars>>

\* readmeTechStack = await fetchSpecialRepoTechStack(...), then the
\* __readme__ entry when the list is not empty
FetchSpecial ==
    /\ bpc = "special"
    /\ \E found \in BOOLEAN :
          /\ readmeMapSet' = found
          /\ languageMap' =
                IF found
                THEN MapSet(languageMap, ReadmeKeyPrefix \o DefaultSpecialRepo,
                            ProfileStack)
                ELSE languageMap
    /\ bpc' = "loop"
    /\ UNCHANGED <<batchKind, activeCount, inputRepos, batchStart, inFlight, jsonFallback,
                   batchResults, stored, upstream, paused, otherVars>>

\* the loop test holds: the calls of the slice are issued
IssueBatch ==
    /\ UNCHANGED languageMap
    /\ bpc = "loop"
    /\ batchStart < activeCount
    /\ inFlight' = BatchSlice(batchStart, batchSize(batchKind), activeCount)
    /\ bpc' = "await"
    /\ UNCHANGED <<batchKind, activeCount, inputRepos, readmeMapSet, batchStart, jsonFallback,
                   batchResults, stored, upstream, paused, otherVars>>

\* the loop test fails: the fetcher returns its map(s)
ReturnMaps ==
    /\ UNCHANGED languageMap
    /\ bpc = "loop"
    /\ batchStart >= activeCount
    /\ bpc' = "done"
    /\ UNCHANGED <<batchKind, activeCount, inputRepos, readmeMapSet, batchStart, inFlight,
                   jsonFallback, batchResults, stored, upstream, paused, otherVars>>

\* the raw README request of r answers with a non-success status:
\* fetchRepoReadme issues the JSON request
RawNotOk(r) ==
    /\ UNCHANGED languageMap
    /\ bpc = "await"
    /\ batchKind = "readme"
    /\ r \in inFlight \ jsonFallback
    /\ jsonFallback' = jsonFallback \cup {r}
    /\ UNCHANGED <<batchKind, activeCount, inputRepos, readmeMapSet, batchStart, inFlight,
                   batchResults, stored, upstream, paused, bpc, otherVars>>

OutcomesOf(kind, inFallback) ==
    IF kind = "languages" THEN LanguageOutcomes
    ELSE IF inFallback THEN FallbackOutcomes ELSE RawOutcomes

\* the calls Promise.all still waits for once the call of r has settled
StillAwaitedNone(calls, r) == {}
StillAwaited(calls, r) == calls \ {r}

SettleWith(r, outcome, result) ==
    /\ batchResults' = [batchResults EXCEPT ![r] = Some(result.v)]
    /\ upstream' = [upstream EXCEPT ![r] = UpstreamOf(outcome)]
    /\ inFlight' = StillAwaited(inFlight, r)
    /\ jsonFallback' = jsonFallback \ {r}
    /\ bpc' = IF result.rejected THEN "rejected" ELSE bpc

\* the call of r settles; a rejection rejects Promise.all and the fetcher
Settle(r) ==
    /\ UNCHANGED languageMap
    /\ bpc = "await"
    /\ r \in inFlight
    /\ \E outcome \in OutcomesOf(batchKind, r \in jsonFallback) :
            SettleWith(r, outcome, CallResult(batchKind, outcome))
    /\ UNCHANGED <<batchKind, activeCount, inputRepos, readmeMapSet, batchStart, stored,
                   paused, otherVars>>

\* await Promise.all(...) resumes when no call of the batch is awaited
SomeSettled(calls, batch) == calls # batch
AllSettled(calls, batch) == calls = {}

\* Promise.all resolves: results.forEach(set), then the pause when
\* i + batchSize < length, else the next loop test
Collect ==
    /\ bpc = "await"
    /\ AllSettled(inFlight, BatchSlice(batchStart, batchSize(batchKind), activeCount))
    /\ stored' = [r \in 1..activeCount |->
                    IF r \in BatchSlice(batchStart, batchSize(batchKind), activeCount)
                    THEN batchResults[r] ELSE stored[r]]
    /\ languageMap' =
          IF batchKind = "languages"
          THEN SetResults(languageMap, ActiveRepos(inputRepos), batchResults,
                          batchStart + 1,
                          IF batchStart + batchSize(batchKind) < activeCount
                          THEN batchStart + batchSize(batchKind)
                          ELSE activeCount)
          ELSE languageMap
    /\ IF batchStart + batchSize(batchKind) < activeCount
       THEN bpc' = "pause" /\ UNCHANGED batchStart
       ELSE bpc' = "loop" /\ batchStart' = batchStart + batchSize(batchKind)
    /\ UNCHANGED <<batchKind, activeCount, inputRepos, readmeMapSet, inFlight, jsonFallback,
                   batchResults, upstream, paused, otherVars>>

\* the timer of the pause fires: i += batchSize
PauseElapsed ==
    /\ UNCHANGED languageMap
    /\ bpc = "pause"
    /\ paused' = paused + pauseOf(batchKind)
    /\ batchStart' = batchStart + batchSize(batchKind)
    /\ bpc' = "loop"
    /\ UNCHANGED <<batchKind, activeCount, inputRepos, readmeMapSet, inFlight, jsonFallback,
                   batchResults, stored, upstream, otherVars>>

NextBatch ==
    \/ FetchSpecial
    \/ IssueBatch
    \/ ReturnMaps
    \/ \E r \in 1..MaxBatchRepos : RawNotOk(r)
    \/ \E r \in 1..MaxBatchRepos : Settle(r)
    \/ Collect
    \/ PauseElapsed

SpecBatch == InitBatch /\ [][NextBatch]_vars

(***************************************************************************)
(* C17.  Batching of the upstream calls.                                   *)
(***************************************************************************)
\* the 0-based number of the slice a repository falls in, for slices of `size`
SliceNumber(r, size) == (r - 1) \div size

\* the calls in flight are at most `size`, lie in one slice, every
\* repository of an earlier slice has settled and is stored, and exactly one
\* pause of `ms` milliseconds has elapsed per earlier slice
InFlightWithin(size, ms) ==
    /\ Cardinality(inFlight) <= size
    /\ \A r \in inFlight :
          /\ \A q \in inFlight : SliceNumber(q, size) = SliceNumber(r, size)
          /\ \A q \in 1..activeCount :
                SliceNumber(q, size) < SliceNumber(r, size)
                    => upstream[q] # "pending" /\ stored[q].some
          /\ paused = ms * SliceNumber(r, size)

\* a pause is taken only while some repository has no call issued yet, and
\* the pauses at the end number one less than the slices
NoPauseAfterLast(size, ms) ==
    /\ bpc = "pause" => \E r \in 1..activeCount :
                            upstream[r] = "pending" /\ r \notin inFlight
    /\ bpc = "done" =>
          /\ \A r \in 1..activeCount : upstream[r] # "pending" /\ stored[r].some
          /\ paused = IF activeCount = 0 THEN 0
                      ELSE ms * SliceNumber(activeCount, size)

\* C17: in fetchAllRepoLanguages at most 5 language calls are in flight, and
\* in the README enrichment loop of useGitHub at most 3 README calls; the
\* calls of a batch are issued only after every call of the batch before has
\* settled and the pause (100 ms, 200 ms) has elapsed, and no pause follows
\* the last batch.
C17_BatchesInTurn ==
    /\ batchKind = "languages" => InFlightWithin(5, 100) /\ NoPauseAfterLast(5, 100)
    /\ batchKind = "readme" => InFlightWithin(3, 200) /\ NoPauseAfterLast(3, 200)

\* the second languages batch is in flight after a full first batch and one
\* pause
C17_Witness ==
    /\ batchKind = "languages"
    /\ 6 \in inFlight
    /\ paused = 100
    /\ \A r \in 1..5 : stored[r].some

\* the second README batch is in flight after one pause
C17_WitnessReadme ==
    /\ batchKind = "readme"
    /\ inFlight = {4, 5, 6}
    /\ paused = 200

(***************************************************************************)
(* C18.  A failing README call costs its own repository's data only.       *)
(***************************************************************************)
NoRepoData == [description |-> None, image |-> None, techStack |-> <<>>]

\* what SampleReadme gives
SampleRepoData ==
    [description |-> Some(<<"A"," ","s","m","a","l","l"," ","d","e","m","o"," ","a","p","p","l","i","c","a","t","i","o","n"," ","f","o","r"," ","t","e","s","t","i","n","g"," ","t","h","i","n","g","s","."," ","-"," ","F","r","o","n","t","e","n","d",":"," ","R","e","a","c","t">>),
     image |-> Some(<<"h","t","t","p","s",":","/","/","e","x","a","m","p","l","e",".","c","o","m","/","s","h","o","t",".","p","n","g">>),
     techStack |-> << <<"R","e","a","c","t">>, <<"*"," ","R","e","a","c","t">> >>]

\* the README call of r failed or delivered content that cannot be decoded
ReadmeLost(r) == upstream[r] \in {"failed", "unparseable"}

\* C18: fetchRepoDescription never rejects; a repository whose README fetch
\* fails (network failure or non-success status) or whose text cannot be
\* parsed gets description null, image null and no technologies, the other
\* repositories of the batch and of the later batches still receive their
\* results, and the hook's error stays unset.
C18_FailureStaysLocal ==
    batchKind = "readme" =>
        /\ bpc # "rejected"
        /\ BatchError = None
        /\ \A r \in 1..activeCount :
              /\ ReadmeLost(r) => batchResults[r] = Some(NoRepoData)
              /\ upstream[r] = "content" => batchResults[r] = Some(SampleRepoData)
        /\ bpc = "done" => \A r \in 1..activeCount : stored[r] = batchResults[r]
                                                     /\ stored[r].some

\* the loop has returned; the first repository's README fetch failed, the
\* second of the same batch and the fourth of the next batch have their data
C18_Witness ==
    /\ batchKind = "readme"
    /\ bpc = "done"
    /\ activeCount >= 4
    /\ upstream[1] = "failed"
    /\ stored[1] = Some(NoRepoData)
    /\ stored[2] = Some(SampleRepoData)
    /\ stored[4] = Some(SampleRepoData)

\* the same with content that cannot be decoded
C18_WitnessUndecodable ==
    /\ batchKind = "readme"
    /\ bpc = "done"
    /\ activeCount >= 2
    /\ upstream[1] = "unparseable"
    /\ stored[1] = Some(NoRepoData)
    /\ stored[2] = Some(SampleRepoData)

(***************************************************************************)
(* hooks/useGitHub: four useSWR calls (profile, repository list, language  *)
(* map, README data) and the values computed from them at each render.     *)
(* A cache entry holds the state of one key: "idle" before the request of  *)
(* the mounted hook starts, "fetching", "settled"; data and error are      *)
(* options; failed records that an upstream call of the last settled       *)
(* request failed.                                                         *)
(***************************************************************************)
MaxHookRepos == 2

HookRepoPool ==
    << [id |-> 1, name |-> RepoName(1), language |-> Some(NameTypeScript),
        topics |-> Some(<<TopicWeb>>), updated_at |-> <<"2","0","2","4","-","0","3","-","0","1","T","1","0",":","0","0",":","0","0","Z">>,
        fork |-> FALSE, archived |-> FALSE, private |-> FALSE],
       [id |-> 2, name |-> RepoName(2), language |-> Some(NameCSS),
        topics |-> Some(<<TopicWeb>>), updated_at |-> <<"2","0","2","4","-","0","3","-","0","1","T","1","0",":","0","0",":","0","0","Z">>,
        fork |-> TRUE, archived |-> FALSE, private |-> FALSE],
       [id |-> 3, name |-> RepoName(3), language |-> None,
        topics |-> Some(<<>>), updated_at |-> <<"2","0","2","4","-","0","2","-","2","9","T","2","3",":","5","9",":","5","9","Z">>,
        fork |-> FALSE, archived |-> FALSE, private |-> FALSE] >>

\* the cache: a list of [key, entry], an absent key reading as a new entry
CacheHas(cache, key) == \E i \in 1..Len(cache) : cache[i].key = key
CacheGet(cache, key) ==
    IF CacheHas(cache, key)
    THEN cache[CHOOSE i \in 1..Len(cache) : cache[i].key = key].entry
    ELSE NewEntry
CachePut(cache, key, entry) ==
    IF CacheHas(cache, key)
    THEN [i \in 1..Len(cache) |->
            IF cache[i].key = key THEN [key |-> key, entry |-> entry] ELSE cache[i]]
    ELSE Append(cache, [key |-> key, entry |-> entry])
EntryOf(cache, key) == IF key.some THEN CacheGet(cache, key.v) ELSE NewEntry

\* isLoading: a request is due or under way and no data is loaded
IsLoading(key, entry) ==
    key.some /\ entry.status \in {"idle", "fetching"} /\ ~entry.data.some

\* const isConfigured = Boolean(GITHUB_USERNAME)
isConfigured == githubUsername # <<>>

\* the keys handed to useSWR
UserKeyAlways(configured) == Some("github-user")
UserKey(configured) == IF configured THEN Some("github-user") ELSE None
ReposKey(configured) == IF configured THEN Some("github-repos") ELSE None
LanguagesKey(configured, names) == IF configured THEN Some(names) ELSE None
RepoDataKey(names) == IF Len(names) > 0 THEN Some(names) ELSE None

RepoNames(rs) == [i \in 1..Len(rs) |-> rs[i].name]

\* const filteredRepos = repos ? filterRepositories(repos) : []
FilteredOf(reposData) ==
    IF reposData.some THEN filterRepositories(reposData.v, None) ELSE <<>>
filteredRepos == FilteredOf(reposSWR.data)

\* fetchAPI: the body, or a thrown Error on a non-success status or a
\* rejected fetch
fetchAPI(outcome, body) ==
    CASE outcome = "ok" -> Fulfilled(body)
      [] outcome = "status" -> [rejected |-> TRUE, v |-> <<"H","T","T","P"," ","4","0","3">>]
      [] OTHER -> [rejected |-> TRUE, v |-> <<"F","a","i","l","e","d"," ","t","o"," ","f","e","t","c","h">>]

\* fetchUserProfile and fetchRepositories throw without a user name
NotConfigured == [rejected |-> TRUE, v |-> <<"G","i","t","H","u","b"," ","u","s","e","r","n","a","m","e"," ","i","s"," ","n","o","t"," ","c","o","n","f","i","g","u","r","e","d">>]

\* the entry after its request settled: SWR keeps the data of the key on an
\* error and clears the error on a success
Settled(entry, result, failed) ==
    IF result.rejected
    THEN [status |-> "settled", data |-> entry.data, error |-> Some(result.v),
          failed |-> failed]
    ELSE [status |-> "settled", data |-> Some(result.v), error |-> None,
          failed |-> failed]

\* fetchAllRepoLanguages(repos): the __readme__ entry when the special
\* repository's README lists technologies, then one entry per active
\* repository; it rejects when a call of Promise.all rejects
LanguageEntries(activeRepos, outcomes) ==
    [i \in 1..Len(activeRepos) |->
        [key |-> activeRepos[i].name, val |-> fetchRepoLanguages(outcomes[i]).v]]
fetchAllRepoLanguagesOf(activeRepos, found, outcomes) ==
    IF \E i \in 1..Len(activeRepos) : fetchRepoLanguages(outcomes[i]).rejected
    THEN [rejected |-> TRUE, v |-> <<"F","a","i","l","e","d"," ","t","o"," ","f","e","t","c","h">>]
    ELSE Fulfilled((IF found
                    THEN << [key |-> ReadmeKeyPrefix \o DefaultSpecialRepo,
                             val |-> ProfileStack] >>
                    ELSE <<>>) \o LanguageEntries(activeRepos, outcomes))
fetchAllRepoLanguages(rs, found, outcomes) ==
    fetchAllRepoLanguagesOf(ActiveRepos(rs), found, outcomes)

\* the fetcher of the README data: one fetchRepoDescription per repository,
\* its README arriving, arriving without content, or failing
ReadmeOutcomes == {"raw", "jsonEmpty", "network"}
fetchRepoData(rs, outcomes) ==
    IF \E i \in 1..Len(rs) : RepoDescriptions[outcomes[i]].rejected
    THEN [rejected |-> TRUE, v |-> <<"F","a","i","l","e","d"," ","t","o"," ","f","e","t","c","h">>]
    ELSE Fulfilled([i \in 1..Len(rs) |-> RepoDescriptions[outcomes[i]].v])

\* the repositories a languages or README key stands for
ReposOfKey(names, kept) == IF names = <<>> THEN <<>> ELSE kept

\* reposWithDescriptions
WithDescriptions(kept, repoData, lm) ==
    [i \in 1..Len(kept) |->
        [name |-> kept[i].name,
         language |-> kept[i].language,
         readmeDescription |-> IF repoData.some THEN repoData.v[i].description ELSE None,
         readmeImage |-> IF repoData.some THEN repoData.v[i].image ELSE None,
         readmeTechStack |->
            Some(MergedTechStack(
                    IF repoData.some THEN repoData.v[i].techStack ELSE <<>>,
                    IF lm.some THEN MapGet(lm.v, kept[i].name) ELSE None))]]

\* the fallback of techStack: the primary languages of the repositories by
\* count, the percentage being count * 100 / total (kept as a fraction)
RECURSIVE PrimaryLangs(_, _, _)
PrimaryLangs(counts, kept, i) ==
    IF Computed(counts) /\ i > Len(kept) THEN counts
    ELSE PrimaryLangs(IF kept[i].language.some
                      THEN AddWeight(counts, kept[i].language.v, 1)
                      ELSE counts, kept, i + 1)
PrimaryTechStackOf(counts, total) ==
    TopSlice(SortByBytes([i \in 1..Len(counts) |->
        [name |-> counts[i].name, bytes |-> counts[i].bytes,
         percentage |-> [times100 |-> counts[i].bytes * 100, over |-> total]]]))
PrimaryTechStack(counts) == PrimaryTechStackOf(counts, SumBytes(counts, 1))

\* let techStack = []; if (repos && languagesMap && languagesMap.size > 0) ...
TechStackOf(reposData, kept, withDescriptions, lm, languagesLoading) ==
    IF reposData.some /\ lm.some /\ Len(lm.v) > 0
    THEN calculateTechStack(withDescriptions, lm.v, None)
    ELSE IF reposData.some /\ Len(kept) > 0 /\ ~languagesLoading
         THEN PrimaryTechStack(PrimaryLangs(<<>>, kept, 1))
         ELSE <<>>

\* loading: isConfigured && (!user && !userError && !repos && !reposError)
\*          || languagesLoading
LoadingOf(configured, user, languagesLoading) ==
    \/ /\ configured
       /\ ~user.data.some /\ ~user.error.some
       /\ ~reposSWR.data.some /\ ~reposSWR.error.some
    \/ languagesLoading

\* what one render of useGitHub returns
Render(kept, languagesKey, languages, repoData) ==
    [user |-> userSWR.data,
     repos |-> WithDescriptions(kept, repoData.data, languages.data),
     techStack |-> TechStackOf(reposSWR.data, kept,
                               WithDescriptions(kept, repoData.data, languages.data),
                               languages.data, IsLoading(languagesKey, languages)),
     languagesMap |-> languages.data,
     loading |-> LoadingOf(isConfigured, userSWR, IsLoading(languagesKey, languages)),
     error |-> ErrorOf(userSWR.error, reposSWR.error, languages.error),
     isConfigured |-> isConfigured]
RenderOf(kept, languagesKey) ==
    Render(kept, languagesKey, EntryOf(languagesSWR, languagesKey),
           EntryOf(repoDataSWR, RepoDataKey(RepoNames(kept))))
useGitHubOf(kept) ==
    RenderOf(kept, LanguagesKey(isConfigured, RepoNames(kept)))
useGitHub == useGitHubOf(filteredRepos)

\* the error value alone, and the languages entry of the current key
CurrentLanguages ==
    EntryOf(languagesSWR, LanguagesKey(isConfigured, RepoNames(filteredRepos)))
HookError == ErrorOf(userSWR.error, reposSWR.error, CurrentLanguages.error)

InitHook ==
    /\ githubUsername \in UsernameChoices
    /\ \E n \in 0..MaxHookRepos : upstreamRepos = SubSeq(HookRepoPool, 1, n)
    /\ userSWR = NewEntry
    /\ reposSWR = NewEntry
    /\ languagesSWR = <<>>
    /\ repoDataSWR = <<>>
    /\ upstreamCalls = {}
    /\ IdleFilter
    /\ IdleTech
    /\ IdleReadme
    /\ IdleDescription
    /\ IdleImage
    /\ IdleBatch
    /\ IdleLast

restVars == <<filterVars, techVars, readmeVars, descVars, imageVars, batchVars,
              lastVars>>

\* the resource a fetcher asks for, when it gets as far as asking
Asked(asks, resource) == IF asks THEN {resource} ELSE {}

\* a one-request fetcher starts: it throws at once without a user name
Begin(entry) ==
    IF githubUsername = <<>> THEN Settled(entry, NotConfigured, FALSE)
    ELSE [entry EXCEPT !.status = "fetching"]

\* the request of 'github-user' starts
StartUser ==
    /\ UserKey(isConfigured).some
    /\ userSWR.status = "idle"
    /\ userSWR' = Begin(userSWR)
    /\ upstreamCalls' = upstreamCalls \cup Asked(githubUsername # <<>>, "user")
    /\ UNCHANGED <<githubUsername, upstreamRepos, reposSWR, languagesSWR,
                   repoDataSWR, restVars>>

\* fetchUserProfile settles
SettleUser ==
    /\ userSWR.status = "fetching"
    /\ \E outcome \in LanguageOutcomes :
          userSWR' = Settled(userSWR, fetchAPI(outcome, githubUsername),
                             outcome # "ok")
    /\ UNCHANGED <<githubUsername, upstreamRepos, reposSWR, languagesSWR,
                   repoDataSWR, upstreamCalls, restVars>>

\* the request of 'github-repos' starts
StartRepos ==
    /\ ReposKey(isConfigured).some
    /\ reposSWR.status = "idle"
    /\ reposSWR' = Begin(reposSWR)
    /\ upstreamCalls' = upstreamCalls \cup Asked(githubUsername # <<>>, "repos")
    /\ UNCHANGED <<githubUsername, upstreamRepos, userSWR, languagesSWR,
                   repoDataSWR, restVars>>

\* fetchRepositories settles
SettleRepos ==
    /\ reposSWR.status = "fetching"
    /\ \E outcome \in LanguageOutcomes :
          reposSWR' = Settled(reposSWR, fetchAPI(outcome, upstreamRepos),
                              outcome # "ok")
    /\ UNCHANGED <<githubUsername, upstreamRepos, userSWR, languagesSWR,
                   repoDataSWR, upstreamCalls, restVars>>

\* the request of the current languages key starts: fetchAllRepoLanguages
\* asks for the special repository's README
StartLanguagesAt(key) ==
    /\ key.some
    /\ CacheGet(languagesSWR, key.v).status = "idle"
    /\ languagesSWR' = CachePut(languagesSWR, key.v,
                          [CacheGet(languagesSWR, key.v) EXCEPT !.status = "fetching"])
StartLanguages ==
    /\ StartLanguagesAt(LanguagesKey(isConfigured, RepoNames(filteredRepos)))
    /\ upstreamCalls' = upstreamCalls \cup Asked(githubUsername # <<>>, "special readme")
    /\ UNCHANGED <<githubUsername, upstreamRepos, userSWR, reposSWR,
                   repoDataSWR, restVars>>

\* fetchAllRepoLanguages settles for the key of entry k of the cache
SettleLanguagesWith(k, rs) ==
    \E found \in BOOLEAN, outcomes \in [1..Len(rs) -> LanguageOutcomes] :
        /\ languagesSWR' = [languagesSWR EXCEPT ![k].entry =
                Settled(@, fetchAllRepoLanguages(rs, found, outcomes),
                        \E i \in 1..Len(rs) : outcomes[i] # "ok")]
        /\ upstreamCalls' = upstreamCalls
                                \cup Asked(Len(ActiveRepos(rs)) > 0, "languages")
SettleLanguages(k) ==
    /\ k <= Len(languagesSWR)
    /\ languagesSWR[k].entry.status = "fetching"
    /\ SettleLanguagesWith(k, ReposOfKey(languagesSWR[k].key, filteredRepos))
    /\ UNCHANGED <<githubUsername, upstreamRepos, userSWR, reposSWR,
                   repoDataSWR, restVars>>

\* the request of the README data key starts with its first README request
StartRepoDataAt(key) ==
    /\ key.some
    /\ CacheGet(repoDataSWR, key.v).status = "idle"
    /\ repoDataSWR' = CachePut(repoDataSWR, key.v,
                          [CacheGet(repoDataSWR, key.v) EXCEPT !.status = "fetching"])
StartRepoData ==
    /\ StartRepoDataAt(RepoDataKey(RepoNames(filteredRepos)))
    /\ upstreamCalls' = upstreamCalls \cup Asked(githubUsername # <<>>, "readme")
    /\ UNCHANGED <<githubUsername, upstreamRepos, userSWR, reposSWR,
                   languagesSWR, restVars>>

\* the README data fetcher settles
SettleRepoDataWith(k, rs) ==
    \E outcomes \in [1..Len(rs) -> ReadmeOutcomes] :
        /\ repoDataSWR' = [repoDataSWR EXCEPT ![k].entry =
                Settled(@, fetchRepoData(rs, outcomes),
                        \E i \in 1..Len(rs) : UpstreamOf(outcomes[i]) = "failed")]
SettleRepoData(k) ==
    /\ k <= Len(repoDataSWR)
    /\ repoDataSWR[k].entry.status = "fetching"
    /\ SettleRepoDataWith(k, ReposOfKey(repoDataSWR[k].key, filteredRepos))
    /\ UNCHANGED <<githubUsername, upstreamRepos, userSWR, reposSWR,
                   languagesSWR, upstreamCalls, restVars>>

\* SWR retries a request that ended in an error
Again(entry) == [entry EXCEPT !.status = "idle"]
RetryOnError ==
    /\ \/ /\ userSWR.status = "settled" /\ userSWR.error.some
          /\ userSWR' = Again(userSWR)
          /\ UNCHANGED reposSWR
       \/ /\ reposSWR.status = "settled" /\ reposSWR.error.some
          /\ reposSWR' = Again(reposSWR)
          /\ UNCHANGED userSWR
    /\ UNCHANGED <<githubUsername, upstreamRepos, languagesSWR, repoDataSWR,
                   upstreamCalls, restVars>>

\* revalidateOnReconnect, the page being open for more than an hour and less
\* than a day: the mounted keys of the profile and of the list
\* (dedupingInterval an hour) are asked for again, those of the languages
\* and of the README data (a day) are not
Stale(key, entry) ==
    IF key.some /\ entry.status = "settled" THEN Again(entry) ELSE entry
Reconnect ==
    /\ userSWR' = Stale(UserKey(isConfigured), userSWR)
    /\ reposSWR' = Stale(ReposKey(isConfigured), reposSWR)
    /\ UNCHANGED <<githubUsername, upstreamRepos, languagesSWR, repoDataSWR,
                   upstreamCalls, restVars>>

NextHook ==
    \/ StartUser
    \/ SettleUser
    \/ StartRepos
    \/ SettleRepos
    \/ StartLanguages
    \/ \E k \in 1..2 : SettleLanguages(k)
    \/ StartRepoData
    \/ \E k \in 1..2 : SettleRepoData(k)
    \/ RetryOnError
    \/ Reconnect

SpecHook == InitHook /\ [][NextHook]_vars

(***************************************************************************)
(* C19.  Which upstream failures reach the hook's error value.             *)
(***************************************************************************)
\* the last settled request of the profile or of the repository list failed
ProfileOrListFailed == userSWR.failed \/ reposSWR.failed

\* a language lookup of the last settled language-map fetch failed
LookupFailed == CurrentLanguages.status = "settled" /\ CurrentLanguages.failed

\* C19: when an upstream call fails (non-success status or network failure)
\* during the profile fetch, the repository-list fetch or the language-map
\* fetch, the error value of useGitHub is set; in particular a failed
\* per-repository language lookup is surfaced as an error.
C19_FailuresSurfaced ==
    (ProfileOrListFailed \/ LookupFailed) => HookError.some

\* the part that holds: a failed profile or repository-list fetch sets error
C19_ProfileAndListSurfaced == ProfileOrListFailed => HookError.some

\* the profile and the list have loaded, the language lookup of the only
\* repository failed, its map entry is the empty object and error is unset
C19_LookupFailureSilent ==
    /\ isConfigured
    /\ userSWR.data.some /\ ~userSWR.error.some
    /\ reposSWR.data.some /\ ~reposSWR.error.some
    /\ Len(filteredRepos) = 1
    /\ LookupFailed
    /\ MapGet(CurrentLanguages.data.v, RepoName(1)) = Some(<<>>)
    /\ HookError = None

(***************************************************************************)
(* C20.  The hook without a configured user name.                          *)
(***************************************************************************)
QuietReturn(returned) ==
    /\ returned.isConfigured = FALSE
    /\ returned.error = None
    /\ returned.loading = FALSE
    /\ returned.repos = <<>>
    /\ returned.techStack = <<>>

\* C20: when the user name is not configured, useGitHub issues no upstream
\* call and returns, in every reachable state, isConfigured false, error
\* unset, loading false, no repositories and an empty tech stack.
C20_UnconfiguredIsQuiet ==
    githubUsername = <<>> => upstreamCalls = {} /\ QuietReturn(useGitHub)

\* no user name, while the API has repositories to list
C20_Witness ==
    /\ githubUsername = <<>>
    /\ Len(upstreamRepos) > 0
    /\ upstreamCalls = {}
    /\ QuietReturn(useGitHub)

(***************************************************************************)
(* URL sanitising and the deployment URL of a repository                   *)
(* (sanitizeUrl, getDeploymentUrl).                                        *)
(***************************************************************************)
MaxMappings == 2

AlphaChars == SeqRange(UpperChars) \cup SeqRange(LowerChars)
SchemeChars == AlphaChars \cup SeqRange(DigitChars) \cup {"+", "-", "."}
TabOrNewline == {"\t", "\n", "\r"}
\* the code points that end the host of a special URL
AuthorityEnd == {"/", "\\", "?", "#"}
\* forbidden host code points, within the model's alphabet
ForbiddenHost == {" ", "<", ">", "[", "]", "^", "|", "%", "@"}

RECURSIVE FirstIn(_, _, _)
\* the first index at or after i whose character is in set, or Len(s) + 1
FirstIn(s, set, i) ==
    IF i > Len(s) \/ s[i] \in set THEN i ELSE FirstIn(s, set, i + 1)

RECURSIVE FirstOutside(_, _, _)
FirstOutside(s, set, i) ==
    IF i > Len(s) \/ s[i] \notin set THEN i ELSE FirstOutside(s, set, i + 1)

RECURSIVE PercentEncodeSpaces(_, _)
\* the percent-encoding the URL parser applies to the path, query and
\* fragment, for the one character of the model's alphabet it changes
PercentEncodeSpaces(s, i) ==
    IF i > Len(s) THEN <<>>
    ELSE (CASE s[i] = " " -> <<"%", "2", "0">>
            [] s[i] = "\\" -> <<"/">>
            [] OTHER -> <<s[i]>>) \o PercentEncodeSpaces(s, i + 1)

DefaultPort(scheme) ==
    CASE scheme = <<"h","t","t","p">> -> <<"8","0">>
      [] scheme = <<"h","t","t","p","s">> -> <<"4","4","3">>
      [] OTHER -> <<>>

UrlFailure == None

\* The host and port of a special URL: the part after the scheme with its
\* slashes skipped, up to the first of / \ ? #.
SpecialUrl(scheme, rest) ==
    LET from == FirstOutside(rest, {"/", "\\"}, 1)
        to == FirstIn(rest, AuthorityEnd, from)
        authority == Slice(rest, from, to - 1)
        tail == Slice(rest, to, Len(rest))
        colon == FirstIn(authority, {":"}, 1)
        host == Slice(authority, 1, colon - 1)
        port == Slice(authority, colon + 1, Len(authority))
        path == IF tail = <<>> \/ tail[1] \in {"?", "#"}
                THEN <<"/">> \o PercentEncodeSpaces(tail, 1)
                ELSE PercentEncodeSpaces(tail, 1)
    IN  IF \/ host = <<>>
           \/ \E i \in 1..Len(host) : host[i] \in ForbiddenHost
           \/ \E i \in 1..Len(port) : port[i] \notin SeqRange(DigitChars)
        THEN UrlFailure
        ELSE Some([protocol |-> scheme \o <<":">>,
                   href |-> scheme \o <<":","/","/">> \o ToLowerCase(host)
                            \o (IF port = <<>> \/ port = DefaultPort(scheme)
                                THEN <<>> ELSE <<":">> \o port)
                            \o path])

\* new URL(url) without a base, for the inputs of the model: leading and
\* trailing control characters and spaces are stripped, tabs and newlines are
\* removed, the scheme is what precedes the first colon and is lower-cased;
\* a string without a scheme fails to parse.  Of a URL that is neither http
\* nor https only the protocol is modelled faithfully.
ParseUrl(url) ==
    LET stripped == Trim(url)
        input == SelectSeq(stripped, LAMBDA c : c \notin TabOrNewline)
        colon == FirstIn(input, {":"}, 1)
        scheme == ToLowerCase(Slice(input, 1, colon - 1))
        rest == Slice(input, colon + 1, Len(input))
    IN  IF \/ colon > Len(input)
           \/ colon = 1
           \/ input[1] \notin AlphaChars
           \/ \E i \in 2..(colon - 1) : input[i] \notin SchemeChars
        THEN UrlFailure
        ELSE IF scheme \in {<<"h","t","t","p">>, <<"h","t","t","p","s">>}
             THEN SpecialUrl(scheme, rest)
             ELSE Some([protocol |-> scheme \o <<":">>,
                        href |-> scheme \o <<":">> \o rest])

dangerousProtocols == {<<"j","a","v","a","s","c","r","i","p","t",":">>, <<"d","a","t","a",":">>, <<"v","b","s","c","r","i","p","t",":">>, <<"f","i","l","e",":">>}

AllowedProtocols == {<<"h","t","t","p",":">>, <<"h","t","t","p","s",":">>}

\* sanitizeUrl(url) for a string; null is None
sanitizeUrl(url) ==
    IF url = <<>> THEN None
    ELSE LET lowerUrl == Trim(ToLowerCase(url))
             urlObj == ParseUrl(url)
         IN  IF \E p \in dangerousProtocols : StartsWith(lowerUrl, p)
             THEN None
             ELSE IF urlObj.some
                  THEN IF urlObj.v.protocol \notin AllowedProtocols
                       THEN None
                       ELSE Some(urlObj.v.href)
                  ELSE \* catch: new URL threw
                       IF StartsWith(url, <<"h","t","t","p",":","/","/">>) \/ StartsWith(url, <<"h","t","t","p","s",":","/","/">>)
                       THEN Some(Trim(url))
                       ELSE None

\* The members every object literal inherits from Object.prototype (the ones
\* a repository may be named after); looking one up in a map built as {}
\* yields the inherited member when the map has no own entry of that name.
ObjectPrototypeMembers == {<<"c","o","n","s","t","r","u","c","t","o","r">>, <<"t","o","S","t","r","i","n","g">>, <<"v","a","l","u","e","O","f">>}
InheritedMember(name) == <<"[","i","n","h","e","r","i","t","e","d"," ">> \o name \o <<"]">>

RECURSIVE UrlMapFrom(_, _, _)
\* customUrls.split(',').forEach(...): the own entries of urlMap
UrlMapFrom(mappings, i, urlMap) ==
    IF i > Len(mappings) THEN urlMap
    ELSE LET parts == SplitOn(mappings[i], {":"})
             name == parts[1]
             url == IF Len(parts) >= 2 THEN parts[2] ELSE <<>>
             sanitized == IF name # <<>> /\ url # <<>>
                          THEN sanitizeUrl(Trim(url)) ELSE None
         IN  UrlMapFrom(mappings, i + 1,
                        IF sanitized.some
                        THEN [e \in DOMAIN urlMap \cup {Trim(name)} |->
                                IF e = Trim(name) THEN sanitized.v ELSE urlMap[e]]
                        ELSE urlMap)

EmptyUrlMap == [e \in {} |-> <<>>]

\* urlMap[repo.name]: undefined is None
UrlMapGet(urlMap, name) ==
    IF name \in DOMAIN urlMap THEN Some(urlMap[name])
    ELSE IF name \in ObjectPrototypeMembers THEN Some(InheritedMember(name))
    ELSE None

autoUrl(name) == <<"h","t","t","p","s",":","/","/">> \o name \o <<".","v","e","r","c","e","l",".","a","p","p">>

\* getDeploymentUrl(repo) under the three environment variables it reads
getDeploymentUrl(repo, custom, detect, username) ==
    LET home == IF repo.homepage.some THEN sanitizeUrl(repo.homepage.v) ELSE None
        configured == IF custom.some /\ custom.v # <<>>
                      THEN UrlMapGet(UrlMapFrom(SplitOn(custom.v, {","}), 1,
                                                EmptyUrlMap), repo.name)
                      ELSE None
    IN  CASE home.some -> home
          [] ~home.some /\ configured.some /\ configured.v # <<>> -> configured
          [] OTHER ->
               IF detect = Some(<<"f","a","l","s","e">>) THEN None
               ELSE IF username = <<>> THEN None
               ELSE sanitizeUrl(autoUrl(repo.name))

(***************************************************************************)
(* The inputs of the model.                                                *)
(***************************************************************************)
UrlRepoNames == {<<"d","e","m","o">>, <<"A","b">>, <<"c","o","n","s","t","r","u","c","t","o","r">>}

UrlPool ==
    { <<>>,
      <<"h","t","t","p","s",":","/","/","e","x","a","m","p","l","e",".","c","o","m">>,
      <<"H","T","T","P",":","/","/","E","x","a","m","p","l","e",".","C","O","M","/","a"," ","b">>,
      <<" "," ","h","t","t","p","s",":","/","/","e","x","a","m","p","l","e",".","c","o","m","/","x","?","q","=","1"," ">>,
      <<"h","t","t","p","s",":","/","/","e","x","a","m","p","l","e",".","c","o","m",":","4","4","3","/","x">>,
      <<"h","t","t","p",":","/","/","e","x","a","m","p","l","e",".","c","o","m",":","8","0","8","0">>,
      <<"h","t","t","p",":","e","x","a","m","p","l","e",".","c","o","m">>,
      <<" ","j","a","v","a","s","c","r","i","p","t",":","a","l","e","r","t","(","1",")">>,
      <<"J","a","v","a","S","c","r","i","p","t",":","a","l","e","r","t","(","1",")">>,
      <<"j","a","v","a","\\","t","s","c","r","i","p","t",":","a","l","e","r","t","(","1",")">>,
      <<"d","a","t","a",":","t","e","x","t","/","h","t","m","l",",","x">>,
      <<"V","B","S","c","r","i","p","t",":","x">>,
      <<"f","i","l","e",":","/","/","/","e","t","c","/","p","a","s","s","w","d">>,
      <<"f","\\","t","i","l","e",":","/","/","/","e","t","c","/","p","a","s","s","w","d">>,
      <<"f","t","p",":","/","/","e","x","a","m","p","l","e",".","c","o","m","/","f">>,
      <<"m","a","i","l","t","o",":","s","o","m","e","o","n","e">>,
      <<"h","t","t","p",":","/","/">>,
      <<"h","t","t","p","s",":","/","/","a"," ","b">>,
      <<" ","h","t","t","p",":","/","/","a"," ","b">>,
      <<"e","x","a","m","p","l","e",".","c","o","m">>,
      <<"/","/","e","x","a","m","p","l","e",".","c","o","m">> }

Mapping(name, url) == [name |-> name, url |-> url]
MappingText(m) == m.name \o <<":">> \o m.url

MappingPool ==
    { Mapping(<<"d","e","m","o">>, <<"h","t","t","p","s",":","/","/","d","e","m","o",".","e","x","a","m","p","l","e",".","c","o","m">>),
      Mapping(<<"A","b">>, <<"h","t","t","p",":","/","/","a","b",".","e","x","a","m","p","l","e",".","c","o","m","/","a","p","p">>),
      Mapping(<<"c","o","n","s","t","r","u","c","t","o","r">>, <<"h","t","t","p","s",":","/","/","c",".","e","x","a","m","p","l","e",".","c","o","m">>),
      Mapping(<<" ","d","e","m","o"," ">>, <<" ","h","t","t","p","s">>),
      Mapping(<<"o","t","h","e","r">>, <<>>) }

RECURSIVE JoinWithComma(_)
JoinWithComma(texts) ==
    IF texts = <<>> THEN <<>>
    ELSE IF Len(texts) = 1 THEN texts[1]
    ELSE texts[1] \o <<",">> \o JoinWithComma(Tail(texts))

\* the values of VITE_REPO_URLS: unset, empty, or up to MaxMappings mappings
CustomUrlChoices ==
    {None, Some(<<>>)} \cup
    { Some(JoinWithComma([i \in 1..Len(ms) |-> MappingText(ms[i])])) :
        ms \in UNION { [1..n -> MappingPool] : n \in 1..MaxMappings } }

InitUrl ==
    /\ IdleFilter /\ IdleTech /\ IdleReadme
    /\ IdleDescription /\ IdleImage /\ IdleBatch /\ IdleHook
    /\ IdleContact
    /\ urlRepo \in [name : UrlRepoNames,
                    homepage : {None} \cup {Some(u) : u \in UrlPool}]
    /\ customUrls \in CustomUrlChoices
    /\ autoDetect \in {None, Some(<<"f","a","l","s","e">>), Some(<<"t","r","u","e">>)}
    /\ urlUsername \in UsernameChoices
    /\ deploymentUrl = None
    /\ upc = "ready"

\* one call of getDeploymentUrl
Resolve ==
    /\ upc = "ready"
    /\ deploymentUrl' = getDeploymentUrl(urlRepo, customUrls, autoDetect, urlUsername)
    /\ upc' = "done"
    /\ UNCHANGED <<urlRepo, customUrls, autoDetect, urlUsername>>
    /\ UNCHANGED <<filterVars, techVars, readmeVars, descVars, imageVars,
                   batchVars, hookVars, contactVars>>

NextUrl == Resolve

SpecUrl == InitUrl /\ [][NextUrl]_vars

(***************************************************************************)
(* Properties of the deployment URL.                                       *)
(***************************************************************************)
IsHttpUrl(text) == StartsWith(text, <<"h","t","t","p",":","/","/">>) \/ StartsWith(text, <<"h","t","t","p","s",":","/","/">>)

\* the mappings 'name:url' with an http or https URL that VITE_REPO_URLS
\* holds for a repository name
OverridesFor(name, custom) ==
    { m \in MappingPool :
        /\ m.name = name
        /\ IsHttpUrl(m.url)
        /\ custom.some
        /\ Includes(<<",">> \o custom.v \o <<",">>,
                    <<",">> \o MappingText(m) \o <<",">>) }

\* C21: a repository with no homepage whose name has an entry 'name:url' with
\* an http or https URL in VITE_REPO_URLS gets that configured URL from
\* getDeploymentUrl, not the guessed one and not null.
C21_OverrideWins ==
    (upc = "done" /\ ~urlRepo.homepage.some) =>
        \A m \in OverridesFor(urlRepo.name, customUrls) :
            deploymentUrl.some /\ StartsWith(deploymentUrl.v, m.url)

\* 'demo:https://demo.example.com' is configured, and the guessed URL is
\* returned all the same
C21_OverrideIgnored ==
    /\ upc = "done"
    /\ urlRepo = [name |-> <<"d","e","m","o">>, homepage |-> None]
    /\ customUrls = Some(<<"d","e","m","o",":","h","t","t","p","s",":","/","/","d","e","m","o",".","e","x","a","m","p","l","e",".","c","o","m">>)
    /\ OverridesFor(urlRepo.name, customUrls) # {}
    /\ deploymentUrl = Some(<<"h","t","t","p","s",":","/","/","d","e","m","o",".","v","e","r","c","e","l",".","a","p","p","/">>)

\* What the code does instead: whatever VITE_REPO_URLS holds, a repository
\* without a homepage that is not named after an inherited member gets the
\* guessed URL or null.
C21_OverrideNeverApplies ==
    (upc = "done" /\ ~urlRepo.homepage.some
        /\ urlRepo.name \notin ObjectPrototypeMembers) =>
        \/ deploymentUrl = None
        \/ deploymentUrl = Some(ToLowerCase(autoUrl(urlRepo.name)) \o <<"/">>)

C21_NullDespiteOverride ==
    /\ upc = "done"
    /\ ~urlRepo.homepage.some
    /\ OverridesFor(urlRepo.name, customUrls) # {}
    /\ autoDetect = Some(<<"f","a","l","s","e">>)
    /\ deploymentUrl = None

(***************************************************************************)
(* The weight accumulated for a name.                                      *)
(***************************************************************************)
\* the weights down a list are never increasing
NeverIncreasing(weights) ==
    \A i, j \in 1..Len(weights) : i < j => weights[i] >= weights[j]

\* C22: the weight calculateTechStack accumulates for a name is the sum of
\* its language bytes over the repositories, plus 10000 - 100 i for every
\* repository that lists it at index i of its README list, plus its entry in
\* the profile README's map, whose entry at index j is 50000 - 1000 j; within
\* one list an earlier position never gets a smaller weight than a later one.
C22_AccumulatedWeight ==
    Returned =>
        /\ \A k \in 1..Len(techStack) :
              techStack[k].bytes = Weight(techStack[k].name)
        /\ Cardinality(AccumulatedNames) <= 12 =>
              {techStack[k].name : k \in 1..Len(techStack)} = AccumulatedNames
        /\ \A j \in 1..Len(ProfileEntries) :
              ProfileEntries[j].bytes = 50000 - 1000 * (j - 1)
        /\ NeverIncreasing([j \in 1..Len(ProfileEntries) |-> ProfileEntries[j].bytes])
        /\ \A i \in 1..Len(tsRepos) :
              NeverIncreasing([j \in 1..Len(RepoReadme(i)) |-> 10000 - 100 * (j - 1)])

\* TypeScript has 800 bytes in the repository, which lists it first in its
\* README, and is first in the profile README
C22_Witness ==
    /\ Returned
    /\ Len(tsRepos) = 1
    /\ RepoLangs(1) = LangsSmall
    /\ RepoReadme(1) # <<>> /\ RepoReadme(1)[1] = NameTypeScript
    /\ ProfileEntries # <<>> /\ ProfileEntries[1].name = NameTypeScript
    /\ \E k \in 1..Len(techStack) :
          techStack[k] = [name |-> NameTypeScript, bytes |-> 60800,
                          percentage |-> techStack[k].percentage]

\* a name that two repositories list first and the profile README second
C22_WitnessTwoLists ==
    /\ Returned
    /\ Len(tsRepos) = 2
    /\ RepoReadme(1) # <<>> /\ RepoReadme(1)[1] = NameReact
    /\ ProfileEntries = ProfileStackLong
    /\ RepoReadme(2) = RepoReadme(1)
    /\ \E k \in 1..Len(techStack) :
          techStack[k].name = NameReact /\ techStack[k].bytes = 69000

(***************************************************************************)
(* The merge of a batch's results, and a call that does not settle.        *)
(***************************************************************************)
LoopBatchSize == IF batchKind = "languages" THEN 5 ELSE 3

\* the repositories whose calls the loop is awaiting, and those among them
\* whose call has not settled
AwaitedBatch ==
    IF bpc # "await" THEN {}
    ELSE {r \in 1..activeCount : SliceNumber(r, LoopBatchSize) * LoopBatchSize = batchStart}
Unsettled == {r \in AwaitedBatch : upstream[r] = "pending"}

\* a step that writes into the result maps
Writes == stored' # stored
Written(r) == stored'[r] # stored[r]

\* C23: in both loops the results of a batch are written into the result maps
\* only after every call of the batch has settled, no call writes while
\* another call of its batch is in flight, and every repository name is
\* written exactly once.
C23_MergedAfterBatchSettles ==
    [][/\ Writes =>
            /\ bpc = "await" /\ AwaitedBatch # {} /\ Unsettled = {}
            /\ \A r \in 1..activeCount :
                  IF r \in AwaitedBatch
                  THEN ~stored[r].some /\ stored'[r] = batchResults[r]
                                       /\ stored'[r].some
                  ELSE ~Written(r)
       /\ Unsettled # {} => ~Writes
       /\ bpc' = "done" => \A r \in 1..activeCount : stored'[r].some]_vars

\* the first README batch of three has been merged and the second is awaited
C23_Witness ==
    /\ batchKind = "readme"
    /\ activeCount = 5
    /\ bpc = "await"
    /\ AwaitedBatch = {4, 5}
    /\ Unsettled = {5}
    /\ \A r \in 1..3 : stored[r] = batchResults[r] /\ stored[r].some
    /\ ~stored[4].some /\ batchResults[4].some

\* the languages loop has returned with six repositories written
C23_WitnessLanguages ==
    /\ batchKind = "languages"
    /\ activeCount = 6
    /\ bpc = "done"
    /\ \A r \in 1..6 : stored[r] = batchResults[r] /\ stored[r].some

\* C24: while one call of a batch has not settled the batch does not
\* complete: none of its results is merged, no later batch is issued and the
\* fetcher does not return; the only steps are settlements of the calls in
\* flight (no timeout, no cancellation).
C24_HungCallStalls ==
    /\ [][Unsettled # {} =>
            /\ stored' = stored
            /\ batchStart' = batchStart
            /\ paused' = paused
            /\ bpc' = "await"
            /\ \A r \in 1..activeCount :
                  upstream'[r] # upstream[r] =>
                      r \in Unsettled /\ batchResults'[r].some]_vars
    /\ [](Unsettled # {} =>
            /\ \A r \in AwaitedBatch : ~stored[r].some
            /\ \A r \in 1..activeCount :
                  r > batchStart + LoopBatchSize => upstream[r] = "pending")

\* five calls of the first languages batch have settled, the fifth is in
\* flight: nothing is merged and the sixth repository is not asked for
C24_Witness ==
    /\ batchKind = "languages"
    /\ activeCount = 6
    /\ bpc = "await"
    /\ Unsettled = {5}
    /\ \A r \in 1..4 : batchResults[r].some /\ ~stored[r].some
    /\ upstream[6] = "pending"
    /\ batchStart = 0

(***************************************************************************)
(* C25.  The hook while the repository list is on its way.                 *)
(***************************************************************************)
\* the loading value alone
HookLoading ==
    LoadingOf(isConfigured, userSWR,
              IsLoading(LanguagesKey(isConfigured, RepoNames(filteredRepos)),
                        CurrentLanguages))

\* the repository-list fetch has not settled
ReposPending ==
    /\ reposSWR.status \in {"idle", "fetching"}
    /\ ~reposSWR.data.some /\ ~reposSWR.error.some

\* what Projects renders as 'No projects found after filtering.'
EmptyProjects == ~HookLoading /\ HookError = None /\ filteredRepos = <<>>

\* C25: with the user name configured, useGitHub never reports loading false
\* and no error while the repository-list fetch is pending; the state with
\* loading false, no error and no repositories is reached only after the
\* repository-list fetch has settled.
C25_NoEmptyListWhilePending ==
    (isConfigured /\ ReposPending) => ~EmptyProjects

\* the profile has loaded, the language-map fetch for the empty list of
\* names has settled, the repository list is still being fetched
C25_EmptyListWhilePending ==
    /\ isConfigured
    /\ userSWR.data.some
    /\ reposSWR.status = "fetching" /\ ReposPending
    /\ CurrentLanguages.status = "settled"
    /\ EmptyProjects
    /\ useGitHub.loading = FALSE
    /\ useGitHub.error = None
    /\ useGitHub.repos = <<>>

\* the part that holds: while neither the profile fetch nor the
\* repository-list fetch has settled, loading is true
C25_LoadingWhileNothingLoaded ==
    (isConfigured /\ ReposPending /\ ~userSWR.data.some /\ ~userSWR.error.some)
        => HookLoading

(***************************************************************************)
(* The contact form and its rate limiter (checkRateLimit,                  *)
(* recordSubmission, Contact).  Time is Date.now() in milliseconds; it     *)
(* advances in steps of a third of the window, and the one-second and      *)
(* five-second timers of the form fire before the next such step.          *)
(***************************************************************************)
MaxTicks == 5
MaxMounts == 2

RATE_LIMIT_WINDOW == 15 * 60 * 1000
MAX_SUBMISSIONS_PER_WINDOW == 3
MsPerMinute == 60000
ClockStep == RATE_LIMIT_WINDOW \div 3

MAX_NAME_LENGTH == 100
MAX_EMAIL_LENGTH == 254
MAX_MESSAGE_LENGTH == 2000
MinNameLength == 2
MinMessageLength == 10

RECURSIVE MinOf(_)
MinOf(s) ==
    IF Len(s) = 1 THEN s[1]
    ELSE LET m == MinOf(Tail(s)) IN IF s[1] < m THEN s[1] ELSE m

\* Math.ceil(a / b) for a >= 0, b > 0
CeilDiv(a, b) == (a + b - 1) \div b

\* submissions.filter(timestamp => now - timestamp < RATE_LIMIT_WINDOW)
recentSubmissionsHalfWindow(stamps, at) ==
    SelectSeq(stamps, LAMBDA timestamp : at - timestamp < RATE_LIMIT_WINDOW \div 2)
recentSubmissions(stamps, at) ==
    SelectSeq(stamps, LAMBDA timestamp : at - timestamp < RATE_LIMIT_WINDOW)

\* checkRateLimit() on the stored timestamps at time `at`
checkRateLimit(stamps, at) ==
    LET recent == recentSubmissions(stamps, at)
    IN  IF Len(recent) >= MAX_SUBMISSIONS_PER_WINDOW
        THEN [allowed |-> FALSE,
              remainingTime |-> Some(RATE_LIMIT_WINDOW - (at - MinOf(recent)))]
        ELSE [allowed |-> TRUE, remainingTime |-> None]

\* recordSubmission(): submissions.push(now)
recordSubmissionTwice(stamps, at) == Append(Append(stamps, at), at)
recordSubmission(stamps, at) == Append(stamps, at)

\* formatRemainingTime(ms): the number of minutes shown
formatRemainingTime(ms) == CeilDiv(ms, MsPerMinute)

\* the message of the rate limit: the minutes it names, or "later"
RateLimitMessage(rateLimit) ==
    IF rateLimit.remainingTime.some /\ rateLimit.remainingTime.v # 0
    THEN [text |-> "Too many submissions. Please try again in", minutes |-> formatRemainingTime(rateLimit.remainingTime.v)]
    ELSE [text |-> "Too many submissions. Please try again later.", minutes |-> 0]

\* What a visitor can put into the form: the lengths of name and message,
\* the length of the e-mail address and whether it is well-formed, and the
\* content of the hidden 'website' field.
FormData(nameLength, emailLength, emailValid, messageLength, website) ==
    [nameLength |-> nameLength, emailLength |-> emailLength,
     emailValid |-> emailValid, messageLength |-> messageLength,
     website |-> website]

FormPool ==
    [ valid |-> FormData(2, 12, TRUE, 10, <<>>),
      longest |-> FormData(100, 254, TRUE, 2000, <<>>),
      shortName |-> FormData(1, 12, TRUE, 10, <<>>),
      longMessage |-> FormData(5, 12, TRUE, 2001, <<>>),
      badEmail |-> FormData(5, 12, FALSE, 10, <<>>),
      longEmail |-> FormData(5, 255, TRUE, 10, <<>>),
      honeypot |-> FormData(5, 12, TRUE, 10, <<"x">>),
      honeypotBlank |-> FormData(5, 12, TRUE, 10, <<" ">>) ]

\* contactSchema: the resolver's verdict on the form data
contactSchema(data) ==
    /\ data.nameLength >= MinNameLength /\ data.nameLength <= MAX_NAME_LENGTH
    /\ data.emailValid /\ data.emailLength <= MAX_EMAIL_LENGTH
    /\ data.messageLength >= MinMessageLength
    /\ data.messageLength <= MAX_MESSAGE_LENGTH
    /\ Len(data.website) <= 0

\* the submit button: disabled={isSubmitting || !!rateLimitError}
ButtonDisabled == isSubmitting \/ rateLimitError.some

\* useEffect(() => {...}, []): the rate limit is checked on mount
MountEffect(rateLimit) ==
    IF ~rateLimit.allowed /\ rateLimit.remainingTime.some
          /\ rateLimit.remainingTime.v # 0
    THEN Some(RateLimitMessage(rateLimit))
    ELSE None

InitContact ==
    /\ IdleFilter /\ IdleTech /\ IdleReadme
    /\ IdleDescription /\ IdleImage /\ IdleBatch /\ IdleHook
    /\ IdleUrl
    /\ now = 0
    /\ submissions = <<>>
    /\ submitError = None
    /\ submitSuccess = FALSE
    /\ rateLimitError = MountEffect(checkRateLimit(<<>>, 0))
    /\ isSubmitting = FALSE
    /\ successTimers = 0
    /\ lastAttempt = NoAttempt
    /\ mounts = 1

contactRest == <<filterVars, techVars, readmeVars, descVars, imageVars,
                 batchVars, hookVars, urlVars>>

\* time passes
Tick ==
    /\ mounts > 0
    /\ now < MaxTicks * ClockStep
    /\ ~isSubmitting
    /\ successTimers = 0
    /\ now' = now + ClockStep
    /\ UNCHANGED <<submissions, submitError, submitSuccess, rateLimitError,
                   isSubmitting, successTimers, lastAttempt, mounts, contactRest>>

\* the body of onSubmit up to its first await or return
onSubmit(data, rateLimit) ==
    IF ~rateLimit.allowed
    THEN /\ submitError' = None
         /\ submitSuccess' = FALSE
         /\ rateLimitError' = Some(RateLimitMessage(rateLimit))
         /\ lastAttempt' = [turn |-> 1 - lastAttempt.turn, data |-> data,
                            outcome |-> "rateLimited"]
         /\ UNCHANGED <<submissions, isSubmitting>>
    ELSE IF Len(Trim(FormPool[data].website)) > 0
    THEN /\ submitError' = Some("Invalid submission detected.")
         /\ submitSuccess' = FALSE
         /\ lastAttempt' = [turn |-> 1 - lastAttempt.turn, data |-> data,
                            outcome |-> "honeypot"]
         /\ UNCHANGED <<submissions, rateLimitError, isSubmitting>>
    ELSE /\ submitError' = None
         /\ submitSuccess' = FALSE
         /\ submissions' = recordSubmission(submissions, now)
         /\ isSubmitting' = TRUE
         /\ lastAttempt' = [turn |-> 1 - lastAttempt.turn, data |-> data,
                            outcome |-> "accepted"]
         /\ UNCHANGED rateLimitError

\* The visitor presses the enabled submit button: handleSubmit validates the
\* data with the resolver and calls onSubmit when they are valid.
Submit(data) ==
    /\ mounts > 0
    /\ ~ButtonDisabled
    /\ IF contactSchema(FormPool[data])
       THEN onSubmit(data, checkRateLimit(submissions, now))
       ELSE /\ lastAttempt' = [turn |-> 1 - lastAttempt.turn, data |-> data,
                               outcome |-> "invalid"]
            /\ UNCHANGED <<submissions, submitError, submitSuccess,
                           rateLimitError, isSubmitting>>
    /\ UNCHANGED <<now, successTimers, mounts, contactRest>>

\* the simulated request resolves after a second: reset(),
\* setSubmitSuccess(true), setRateLimitError(null), and the timer is set
Complete ==
    /\ mounts > 0
    /\ isSubmitting
    /\ submitSuccess' = TRUE
    /\ rateLimitError' = None
    /\ successTimers' = successTimers + 1
    /\ isSubmitting' = FALSE
    /\ UNCHANGED <<now, submissions, submitError, lastAttempt, mounts, contactRest>>

\* a five-second timer fires: setSubmitSuccess(false)
ClearSuccess ==
    /\ mounts > 0
    /\ successTimers > 0
    /\ submitSuccess' = FALSE
    /\ successTimers' = successTimers - 1
    /\ UNCHANGED <<now, submissions, submitError, rateLimitError, isSubmitting,
                   lastAttempt, mounts, contactRest>>

\* The page is loaded again in the same tab: sessionStorage is kept, the
\* component starts from its initial state and runs its mount effect.
Remount ==
    /\ mounts > 0
    /\ mounts < MaxMounts
    /\ mounts' = mounts + 1
    /\ submitError' = None
    /\ submitSuccess' = FALSE
    /\ isSubmitting' = FALSE
    /\ successTimers' = 0
    /\ rateLimitError' = MountEffect(checkRateLimit(submissions, now))
    /\ UNCHANGED <<now, submissions, lastAttempt, contactRest>>

NextContact ==
    \/ Tick
    \/ \E data \in DOMAIN FormPool : Submit(data)
    \/ Complete
    \/ ClearSuccess
    \/ Remount

SpecContact == InitContact /\ [][NextContact]_vars

(***************************************************************************)
(* Properties of the contact form.                                         *)
(***************************************************************************)
\* the recorded submissions younger than 15 minutes at time `at`
Younger(at) == {i \in 1..Len(submissions) : at - submissions[i] < 900000}

\* the recorded submissions of the 15 minutes that begin at `from`
WithinWindowFrom(from) ==
    {i \in 1..Len(submissions) :
        from <= submissions[i] /\ submissions[i] < from + 900000}

\* a step that is a submit attempt
Attempted == lastAttempt'.turn # lastAttempt.turn

\* C26: whatever the submit attempts of a session, at most 3 submissions are
\* recorded within any 15-minute window: a submission is recorded only when
\* fewer than 3 recorded timestamps are younger than 15 minutes at that
\* moment.
C26_AtMostThreePerWindow ==
    /\ [](\A i \in 1..Len(submissions) :
              Cardinality(WithinWindowFrom(submissions[i])) <= 3)
    /\ [][submissions' # submissions =>
              /\ Cardinality(Younger(now)) < 3
              /\ submissions' = Append(submissions, now)]_vars

\* three submissions recorded at one time, and the fourth attempt refused
C26_Witness ==
    /\ Len(submissions) = 3
    /\ Cardinality(Younger(now)) = 3
    /\ lastAttempt.outcome = "rateLimited"
    /\ rateLimitError.some

\* three more are recorded as soon as the first three are 15 minutes old
C26_WitnessNextWindow ==
    /\ submissions = <<0, 0, 0, 900000, 900000, 900000>>
    /\ now = 900000

\* C27: once the form has shown the rate-limit message it becomes
\* submittable again when the window has passed: with fewer than 3
\* submissions younger than 15 minutes, a valid submit attempt in the same
\* mounted form can be made and is accepted.
C27_SubmittableAfterWindow ==
    (mounts > 0 /\ ~isSubmitting /\ Cardinality(Younger(now)) < 3)
        => ~ButtonDisabled

\* the form that refused the fourth attempt is still mounted, every recorded
\* submission is older than 15 minutes, and the button is disabled
C27_StillBlocked ==
    /\ mounts = 1
    /\ lastAttempt.outcome = "rateLimited"
    /\ Len(submissions) = 3
    /\ Younger(now) = {}
    /\ ~isSubmitting
    /\ rateLimitError.some
    /\ ButtonDisabled

\* What the code does: while the form stays mounted the message, once set,
\* is never cleared and nothing more is recorded.
C27_BlockedUntilRemount ==
    [][(rateLimitError.some /\ mounts' = mounts) =>
            /\ rateLimitError' = rateLimitError
            /\ submissions' = submissions
            /\ ~Attempted]_vars

\* the reasons for which an attempt is rejected, stated on the form data
RateLimitReached == Cardinality(Younger(now)) >= 3
HoneypotFilled(data) == FormPool[data].website # <<>>
SchemaFails(data) ==
    \/ FormPool[data].nameLength < 2 \/ FormPool[data].nameLength > 100
    \/ ~FormPool[data].emailValid \/ FormPool[data].emailLength > 254
    \/ FormPool[data].messageLength < 10 \/ FormPool[data].messageLength > 2000
Rejected(data) == RateLimitReached \/ HoneypotFilled(data) \/ SchemaFails(data)

\* C28: a rejected submit attempt (rate limit reached, honeypot field
\* 'website' not empty, or schema validation failure) leaves the recorded
\* timestamps unchanged and does not set the success state; only an accepted
\* attempt appends a timestamp, and exactly one.
C28_RejectedLeavesNoTrace ==
    [][/\ Attempted =>
            IF Rejected(lastAttempt'.data)
            THEN /\ lastAttempt'.outcome # "accepted"
                 /\ submissions' = submissions
                 /\ ~(submitSuccess' /\ ~submitSuccess)
            ELSE /\ lastAttempt'.outcome = "accepted"
                 /\ submissions' = Append(submissions, now)
                 /\ ~submitSuccess'
       /\ submissions' # submissions =>
            Attempted /\ ~Rejected(lastAttempt'.data)]_vars

\* an attempt with the honeypot filled was rejected after two accepted ones
C28_Witness ==
    /\ lastAttempt.data = "honeypot"
    /\ lastAttempt.outcome = "invalid"
    /\ Len(submissions) = 2
    /\ ~submitSuccess

\* an attempt was refused by the rate limit, another failed validation
C28_WitnessRateLimited ==
    /\ lastAttempt.data = "valid"
    /\ lastAttempt.outcome = "rateLimited"
    /\ Len(submissions) = 3
C28_WitnessInvalid ==
    /\ lastAttempt.data = "shortName"
    /\ lastAttempt.outcome = "invalid"
    /\ submitSuccess

(***************************************************************************)
(* C29.  The scheme of what sanitizeUrl and getDeploymentUrl return.       *)
(***************************************************************************)
\* the text starts, ignoring case and surrounding white space, with one of
\* the four dangerous schemes
DangerousStart(text) ==
    \E p \in {<<"j","a","v","a","s","c","r","i","p","t",":">>, <<"d","a","t","a",":">>, <<"v","b","s","c","r","i","p","t",":">>, <<"f","i","l","e",":">>} :
        StartsWith(Trim(ToLowerCase(text)), p)

\* sanitizeUrl on the homepage of the state
SanitizedHomepage ==
    IF urlRepo.homepage.some THEN sanitizeUrl(urlRepo.homepage.v) ELSE None

SanitizeUrlIsSafe(sanitized) ==
    /\ sanitized.some => IsHttpUrl(sanitized.v)
    /\ (urlRepo.homepage.some /\ DangerousStart(urlRepo.homepage.v))
          => ~sanitized.some
    /\ sanitized.some => deploymentUrl = sanitized

\* C29: every non-null value sanitizeUrl returns, and therefore every
\* non-null value getDeploymentUrl returns, is a URL with the scheme http or
\* https; an input that starts (ignoring case and surrounding white space)
\* with javascript:, data:, vbscript: or file: yields null.
C29_OnlyHttpUrls ==
    upc = "done" =>
        /\ SanitizeUrlIsSafe(SanitizedHomepage)
        /\ deploymentUrl.some => IsHttpUrl(deploymentUrl.v)

\* a repository named 'constructor' without a homepage, VITE_REPO_URLS set:
\* urlMap[repo.name] is the member inherited from Object.prototype, and it
\* is returned
C29_InheritedMemberReturned ==
    /\ upc = "done"
    /\ urlRepo = [name |-> <<"c","o","n","s","t","r","u","c","t","o","r">>, homepage |-> None]
    /\ customUrls = Some(<<"d","e","m","o",":","h","t","t","p","s",":","/","/","d","e","m","o",".","e","x","a","m","p","l","e",".","c","o","m">>)
    /\ deploymentUrl.some
    /\ ~IsHttpUrl(deploymentUrl.v)

\* the part that holds: what sanitizeUrl returns is an http or https URL and
\* the dangerous schemes yield null; so does getDeploymentUrl for a repository
\* that is not named after a member of Object.prototype
C29_SanitizeUrlOnlyHttp ==
    upc = "done" =>
        /\ SanitizeUrlIsSafe(SanitizedHomepage)
        /\ (deploymentUrl.some /\ urlRepo.name \notin {<<"c","o","n","s","t","r","u","c","t","o","r">>, <<"t","o","S","t","r","i","n","g">>, <<"v","a","l","u","e","O","f">>})
              => IsHttpUrl(deploymentUrl.v)

\* a homepage in capitals with a space in its path comes back normalised;
\* 'JavaScript:alert(1)' comes back as null
C29_WitnessNormalised ==
    /\ upc = "done"
    /\ urlRepo.homepage = Some(<<"H","T","T","P",":","/","/","E","x","a","m","p","l","e",".","C","O","M","/","a"," ","b">>)
    /\ deploymentUrl = Some(<<"h","t","t","p",":","/","/","e","x","a","m","p","l","e",".","c","o","m","/","a","%","2","0","b">>)
C29_WitnessDangerous ==
    /\ upc = "done"
    /\ urlRepo.homepage = Some(<<"J","a","v","a","S","c","r","i","p","t",":","a","l","e","r","t","(","1",")">>)
    /\ DangerousStart(urlRepo.homepage.v)
    /\ SanitizedHomepage = None
    /\ urlUsername = <<>>
    /\ deploymentUrl = None

(***************************************************************************)
(* fetchAllRepoLanguages on a list with forks and archived repositories,   *)
(* every call it issues settling in the end.                               *)
(***************************************************************************)
MaxInputRepos == 6

\* the lists passed in: every repository active, or the first a fork and the
\* last archived
InputChoices ==
    { [i \in 1..n |-> InputRepo(i, flagged /\ i = 1, flagged /\ i = n /\ n > 1)] :
        n \in 0..MaxInputRepos, flagged \in BOOLEAN }

InitLanguages ==
    /\ batchKind = "languages"
    /\ inputRepos \in InputChoices
    /\ activeCount = Len(ActiveRepos(inputRepos))
    /\ languageMap = <<>>
    /\ readmeMapSet = FALSE
    /\ batchStart = 0
    /\ inFlight = {}
    /\ jsonFallback = {}
    /\ batchResults = [r \in 1..activeCount |-> None]
    /\ stored = [r \in 1..activeCount |-> None]
    /\ upstream = [r \in 1..activeCount |-> "pending"]
    /\ paused = 0
    /\ bpc = "special"
    /\ IdleFilter
    /\ IdleTech
    /\ IdleReadme
    /\ IdleDescription
    /\ IdleImage
    /\ IdleHook
    /\ IdleLast

\* the steps of the event loop: a continuation that is ready is run
Continue == IssueBatch \/ Collect \/ ReturnMaps

NextLanguages ==
    \/ FetchSpecial
    \/ Continue
    \/ \E r \in 1..MaxInputRepos : Settle(r)
    \/ PauseElapsed

\* Every call that was issued settles (the README call of the special
\* repository and the language call of each repository), a timer that was
\* set fires, and a continuation that is ready runs.
SpecLanguages ==
    /\ InitLanguages
    /\ [][NextLanguages]_vars
    /\ WF_vars(FetchSpecial)
    /\ \A r \in 1..MaxInputRepos : WF_vars(Settle(r))
    /\ WF_vars(PauseElapsed)
    /\ WF_vars(Continue)

\* the names of the input repositories that are neither forks nor archived
ActiveNames ==
    {inputRepos[i].name : i \in {j \in 1..Len(inputRepos) :
                                    ~inputRepos[j].fork /\ ~inputRepos[j].archived}}
ReservedKey == <<"_","_","r","e","a","d","m","e","_","_","r","u","s","y","d","i","a","h","m","a","d","y","u","s","o","f">>
EntriesOf(key) == {k \in 1..Len(languageMap) : languageMap[k].key = key}

\* the lookup of the repository of that name failed
LookupFailedFor(name) ==
    \E r \in 1..activeCount :
        ActiveRepos(inputRepos)[r].name = name /\ upstream[r] = "failed"

ReturnedMapComplete ==
    /\ \A name \in ActiveNames :
          /\ Cardinality(EntriesOf(name)) = 1
          /\ LookupFailedFor(name) =>
                \A k \in EntriesOf(name) : languageMap[k].val = <<>>
    /\ Cardinality(EntriesOf(ReservedKey)) <= 1
    /\ \A k \in 1..Len(languageMap) :
          languageMap[k].key \in ActiveNames \cup {ReservedKey}

\* C30: if every issued network call settles in the end, fetchAllRepoLanguages
\* returns, and the map it returns has exactly one entry for every input
\* repository that is neither a fork nor archived (the empty map where the
\* lookup failed), at most one '__readme__<profile repository>' entry, and
\* no other key.
C30_ReturnsOneEntryPerActiveRepo ==
    /\ <>(bpc = "done")
    /\ [](bpc = "done" => ReturnedMapComplete)

\* returned: five repositories given, the first a fork and the last archived,
\* three entries and the profile entry in the map, the second lookup failed
C30_Witness ==
    /\ bpc = "done"
    /\ Len(inputRepos) = 5
    /\ inputRepos[1].fork /\ inputRepos[5].archived
    /\ Len(languageMap) = 4
    /\ readmeMapSet
    /\ LookupFailedFor(RepoName(3))
    /\ [key |-> RepoName(3), val |-> <<>>] \in SeqRange(languageMap)
    /\ [key |-> RepoName(2), val |-> LangsSmall] \in SeqRange(languageMap)

\* returned after two batches of six repositories
C30_WitnessTwoBatches ==
    /\ bpc = "done"
    /\ Len(inputRepos) = 6
    /\ Len(languageMap) = 6
    /\ paused = 100

=============================================================================
